---------------------------- MODULE Spec2Model ----------------------------
(***************************************************************************)
(* The sandbox registry and metrics federation engine of the kata          *)
(* management agent (pkg/magent, later kata-monitor).                      *)
(*                                                                         *)
(* The agent is modelled as the tasks spec.md describes, each translated   *)
(* from its source:                                                        *)
(*   - sandboxCache and its event listener   (unnamed/part_006)            *)
(*   - NewMAgent / initSandboxCache          (pkg/magent/magent.go)        *)
(*   - getSandboxes / isSandboxContainer     (unnamed/part_005)            *)
(*   - the periodic cache updater            (unnamed/part_000)            *)
(*   - the /metrics handler                  (pkg/magent/metrics.go)       *)
(* plus an environment: the container metadata service (containers come    *)
(* and go, the service may be unreachable) and the event bus (events may   *)
(* be dropped or delivered twice, the subscription may fail).              *)
(*                                                                         *)
(* Go maps are reference objects: the registry's backing map lives in a    *)
(* small heap (mem) and sc.sandboxes, the updater's local and the          *)
(* handler's local are references into it (NilRef is the nil map).         *)
(***************************************************************************)
EXTENDS Integers, Sequences, FiniteSets, TLC

VARIABLES
    ext,        \* metadata service: container id -> descriptor (or Absent)
    queue,      \* envelopes in flight on the subscription's event channel
    subErr,     \* an error is pending on the subscription's error channel
    nchg,       \* number of external changes so far (bounded)
    proc,       \* "starting" | "running" | "refused" | "crashed"
    mem,        \* heap of map objects: ref -> (id :> namespace ...)
    sandboxes,  \* sc.sandboxes: reference to the backing map
    lock,       \* holder of sc.Mutex
    lpc,        \* listener: position in startEventsListener
    lev,        \* listener: the envelope being handled
    last,       \* what the registry operation just completed returned, until
                \* its caller moves on
    rpc,        \* lister (initSandboxCache, then startPodCacheUpdater): position
    rns,        \* getSandboxes: namespaces still to list
    rmap,       \* getSandboxes: reference to sandboxMap (NilRef after an error)
    shim,       \* what each sandbox's metrics endpoint answers
    req,        \* the scrape request and the faults it meets
    prom,       \* the agent's own metrics (prometheus default registry)
    nscrapes,   \* number of scrape requests so far (bounded)
    spc,        \* /metrics handler: position in ProcessMetricsRequest
    ssnap,      \* aggregateSandboxMetrics: its local sandboxes (a reference)
    sstart,     \* the entries that map had when getAllSandboxes returned it
    svisited,   \* ids the range loop has produced so far
    slist,      \* sandboxMetricsList
    metricsMap, \* metricsMap of the last pass
    resp,       \* the response of the last request
    pool,       \* gzipPool: the compressors it holds
    gzstate,    \* each compressor: "none" | "new" | "open" | "closed"
    greq,       \* concurrent /metrics requests: position, compressor, defers
    gnreq,      \* number of concurrent-request starts so far (bounded)
    cancelled,  \* the agent's owner has asked the agent to stop
    conf,       \* what NewMAgent is given: the address, and what loading the
                \* containerd configuration file does
    pparams,    \* virtcontainers: the proxyParams given to validateProxyParams
    perr,       \* what validateProxyParams returned ("unset" before the call)
    isSupportAgentMetricsAPI,
                \* containerd-shim-v2: the package variable of that name
    sreq,       \* shim: concurrent requests to serveMetrics, position and outcome
    snreq,      \* shim: number of requests started so far (bounded)
    psandboxID, \* proxyBuiltin.sandboxID
    pconn,      \* proxyBuiltin.conn: "nil" or "open"
    bcall       \* the last call of proxyBuiltin.start or stop and what it returned

\* what the handler reads and writes of its own
\* the compressor pool and the requests that share it
gvars == <<pool, gzstate, greq, gnreq>>

\* what the agent's owner writes; no task of the agent reads it
avars == <<cancelled, conf>>

\* the proxy parameters under validation (virtcontainers)
pvars == <<pparams, perr>>

\* the shim's metrics endpoint (containerd-shim-v2)
mvars == <<isSupportAgentMetricsAPI, sreq, snreq>>

\* the built-in proxy (virtcontainers)
bvars == <<psandboxID, pconn, bcall>>

\* the programs next to the agent
ovars == <<mvars, bvars>>

hvars == <<shim, req, prom, nscrapes, spc, ssnap, sstart, svisited, slist,
           metricsMap, resp, gvars, avars, pvars, ovars>>

\* what the handler never writes
wvars == <<ext, queue, subErr, nchg, sandboxes, lpc, lev, last, rpc, rns, rmap>>

vars == <<ext, queue, subErr, nchg, proc, mem, sandboxes, lock,
          lpc, lev, last, rpc, rns, rmap, hvars>>

-----------------------------------------------------------------------------
(* Bounds of the model *)

MaxChanges == 2
MaxQueue == 2
MaxRef == 3
MaxScrapes == 2
MaxCompressors == 2
MaxRequests == 3

(* Program constants *)

kataRuntimeName == "io.containerd.kata.v2"
otherRuntimeName == "io.containerd.runc.v2"
TopicCreate == "/containers/create"
TopicDelete == "/containers/delete"
TopicOther == "/tasks/start"

IDs == {"s1", "s2"}
FedIDs == {"s1", "s2", "s3"}
NamespaceList == <<"nsa", "nsb">>
Namespaces == {NamespaceList[i] : i \in 1..Len(NamespaceList)}

Absent == [present |-> FALSE, namespace |-> "", runtime |-> "", type |-> ""]
Container(ns, rt, type) ==
    [present |-> TRUE, namespace |-> ns, runtime |-> rt, type |-> type]
\* What a created container can be: a kata sandbox in either namespace, a
\* kata container that is not a sandbox, a sandbox of another runtime.
Descriptors ==
    { Container("nsa", kataRuntimeName, "sandbox"),
      Container("nsb", kataRuntimeName, "sandbox"),
      Container("nsa", kataRuntimeName, "container"),
      Container("nsa", otherRuntimeName, "sandbox") }

\* The namespace a sandbox lives in when it runs
NsOf(id) == IF id = "s2" THEN "nsb" ELSE "nsa"

\* What runs when the agent starts: nothing, or a kata sandbox per id.
InitialExt ==
    { [id \in IDs |-> Absent],
      [id \in IDs |-> Container(NsOf(id), kataRuntimeName, "sandbox")] }

NoEvent ==
    [topic |-> "", namespace |-> "", id |-> "", runtime |-> "", payload |-> ""]

-----------------------------------------------------------------------------
(* Go maps *)

NilRef == 0
Refs == 1..MaxRef
EmptyMap == [i \in {} |-> ""]

\* A map value as seen through a reference: the nil map reads as empty.
Deref(m, r) == [isnil |-> r = NilRef, kv |-> IF r = NilRef THEN EmptyMap ELSE m[r]]

MapPut(kv, id, value) ==
    [i \in DOMAIN kv \cup {id} |-> IF i = id THEN value ELSE kv[i]]

MapDelete(kv, id) == [i \in DOMAIN kv \ {id} |-> kv[i]]

\* make(map[string]string): the least reference nothing points to.
Fresh(live) == CHOOSE r \in Refs \ live : \A q \in Refs \ live : r <= q

\* Unreachable map objects are garbage: they read as empty.
Collect(m, live) == [r \in Refs |-> IF r \in live THEN m[r] ELSE EmptyMap]

-----------------------------------------------------------------------------
(* sandboxCache: the bodies of the registry operations, between Lock and   *)
(* the deferred Unlock.  Each takes the map sc.sandboxes refers to and     *)
(* yields the map afterwards, what is returned, and whether Go panics.     *)

deleteIfExists_keep(m, id) ==
    IF id \in DOMAIN m.kv
    THEN [map |-> m, val |-> m.kv[id], ok |-> TRUE, panic |-> FALSE]
    ELSE [map |-> m, val |-> "", ok |-> FALSE, panic |-> FALSE]

deleteIfExists(m, id) ==
    IF id \in DOMAIN m.kv
    THEN [map |-> [m EXCEPT !.kv = MapDelete(m.kv, id)], val |-> m.kv[id],
          ok |-> TRUE, panic |-> FALSE]
    ELSE [map |-> m, val |-> "", ok |-> FALSE, panic |-> FALSE]

putIfNotExists_overwrites(m, id, value) ==
    IF m.isnil
    THEN [map |-> m, ok |-> FALSE, panic |-> TRUE]
    ELSE [map |-> [m EXCEPT !.kv = MapPut(m.kv, id, value)],
          ok |-> id \notin DOMAIN m.kv, panic |-> FALSE]

putIfNotExists(m, id, value) ==
    IF id \notin DOMAIN m.kv
    THEN IF m.isnil
         THEN \* assignment to entry in nil map
              [map |-> m, ok |-> FALSE, panic |-> TRUE]
         ELSE [map |-> [m EXCEPT !.kv = MapPut(m.kv, id, value)], ok |-> TRUE,
               panic |-> FALSE]
    ELSE [map |-> m, ok |-> FALSE, panic |-> FALSE]

init_keep(sc, arg) == sc

\* init(sandboxes) (kata-monitor: set): the reference sc.sandboxes holds
\* afterwards.  The argument map itself is stored, nothing is copied.
init(sc, arg) == arg

\* getAllSandboxes(): the reference handed to the caller.
getAllSandboxes(sc) == sc

-----------------------------------------------------------------------------
(* The environment: metadata service and event bus *)

Subscribed == lpc \in {"select", "getContainer", "putLock", "putBody",
                       "delLock", "delBody", "log"}

Copies(e, n) == [i \in 1..n |-> e]

CanEmit(n) == n = 0 \/ (Subscribed /\ Len(queue) + n <= MaxQueue)

CreateEvent(id, d) ==
    [topic |-> TopicCreate, namespace |-> d.namespace, id |-> id,
     runtime |-> d.runtime, payload |-> "ok"]

DeleteEvent(id, d) ==
    [topic |-> TopicDelete, namespace |-> d.namespace, id |-> id, runtime |-> "",
     payload |-> "ok"]

\* A container is created; the bus delivers its event n times (0: dropped).
ExtCreate(id, d, n) ==
    /\ UNCHANGED hvars
    /\ ~ext[id].present
    /\ nchg < MaxChanges
    /\ CanEmit(n)
    /\ ext' = [ext EXCEPT ![id] = d]
    /\ queue' = queue \o Copies(CreateEvent(id, d), n)
    /\ nchg' = nchg + 1
    /\ UNCHANGED <<subErr, proc, mem, sandboxes, lock, lpc, lev, last,
                   rpc, rns, rmap>>

ExtDelete(id, n) ==
    /\ UNCHANGED hvars
    /\ ext[id].present
    /\ nchg < MaxChanges
    /\ CanEmit(n)
    /\ ext' = [ext EXCEPT ![id] = Absent]
    /\ queue' = queue \o Copies(DeleteEvent(id, ext[id]), n)
    /\ nchg' = nchg + 1
    /\ UNCHANGED <<subErr, proc, mem, sandboxes, lock, lpc, lev, last,
                   rpc, rns, rmap>>

\* Events the listener has no use for: an event of another topic, a create
\* and a delete event whose body is no Any the listener can unmarshal, a
\* delete event whose body does not unmarshal into a ContainerDelete.
NoiseEvents ==
    { [topic |-> TopicOther, namespace |-> "nsa", id |-> "s1", runtime |-> "",
       payload |-> "ok"],
      [topic |-> TopicCreate, namespace |-> "nsa", id |-> "s1",
       runtime |-> kataRuntimeName, payload |-> "notAny"],
      [topic |-> TopicDelete, namespace |-> "nsa", id |-> "s1", runtime |-> "",
       payload |-> "notAny"],
      [topic |-> TopicDelete, namespace |-> "nsa", id |-> "s1", runtime |-> "",
       payload |-> "badJSON"] }

\* The bus delivers such an event.
ExtNoise(e) ==
    /\ UNCHANGED hvars
    /\ Subscribed
    /\ Len(queue) < MaxQueue
    /\ nchg < MaxChanges
    /\ queue' = Append(queue, e)
    /\ nchg' = nchg + 1
    /\ UNCHANGED <<ext, subErr, proc, mem, sandboxes, lock, lpc, lev, last,
                   rpc, rns, rmap>>

\* A container is deleted and a container of the same id is created as d
\* before the agent takes its next step; the bus drops both events.
ExtReplace(id, d) ==
    /\ UNCHANGED hvars
    /\ ext[id].present
    /\ ext[id] # d
    /\ nchg < MaxChanges
    /\ ext' = [ext EXCEPT ![id] = d]
    /\ nchg' = nchg + 1
    /\ UNCHANGED <<queue, subErr, proc, mem, sandboxes, lock, lpc, lev, last,
                   rpc, rns, rmap>>

\* The subscription breaks: an error is put on its error channel.
SubscriptionFail ==
    /\ UNCHANGED hvars
    /\ Subscribed
    /\ ~subErr
    /\ subErr' = TRUE
    /\ UNCHANGED <<ext, queue, nchg, proc, mem, sandboxes, lock, lpc,
                   lev, last, rpc, rns, rmap>>

-----------------------------------------------------------------------------
(* NewMAgent, before initSandboxCache *)

\* The arguments of NewMAgent: the containerd address (empty or not) and what
\* srvconfig.LoadConfig returns for the configuration file
Confs == [addr : {"", "/run/containerd/containerd.sock"},
          load : {"ok", "notExist", "error"}]

GoodConf == [addr |-> "/run/containerd/containerd.sock", load |-> "ok"]

ConfigRefused_onlyAddr(c) == c.addr = ""

\* containerdAddr == "", or LoadConfig's err != nil && !os.IsNotExist(err)
ConfigRefused(c) == c.addr = "" \/ c.load \notin {"ok", "notExist"}

\* NewMAgent up to the call of initSandboxCache
NewMAgent_Check ==
    /\ UNCHANGED hvars
    /\ proc = "starting"
    /\ rpc = "new"
    /\ IF ConfigRefused(conf)
       THEN proc' = "refused" /\ rpc' = "done"
       ELSE proc' = proc /\ rpc' = "getSandboxes"
    /\ UNCHANGED <<ext, queue, subErr, nchg, mem, sandboxes, lock, lpc, lev,
                   last, rns, rmap>>

-----------------------------------------------------------------------------
(* getSandboxes, called by initSandboxCache at startup and then by         *)
(* startPodCacheUpdater in its loop                                        *)

RefsInUse == {sandboxes, rmap, ssnap} \ {NilRef}

NoOp == [by |-> "", op |-> "", id |-> "", val |-> "", ok |-> FALSE, diff |-> FALSE]

\* The caller of a registry operation moves on: its result goes out of scope.
Forget(task) == IF last.by = task THEN NoOp ELSE last

isSandboxContainer(c) == c.type = "sandbox"

\* The containers List(namespacedCtx, "runtime.name=="+kataRuntimeName) returns.
ListContainers(ns) ==
    {id \in IDs : /\ ext[id].present
                  /\ ext[id].namespace = ns
                  /\ ext[id].runtime = kataRuntimeName}

\* sandboxMap[c.ID] = namespace for every listed sandbox container.
AddSandboxes(kv, ns) ==
    LET found == {id \in ListContainers(ns) : isSandboxContainer(ext[id])}
    IN [i \in DOMAIN kv \cup found |-> IF i \in found THEN ns ELSE kv[i]]

ListerTask == IF proc = "starting" THEN "main" ELSE "updater"

\* getSandboxes returns (nil, err).  initSandboxCache hands the error to
\* NewMAgent, which returns no agent; startPodCacheUpdater logs it and goes on
\* to set(sandboxes) with the nil map.
getSandboxesFails ==
    /\ rns' = <<>>
    /\ rmap' = NilRef
    /\ mem' = Collect(mem, {sandboxes, ssnap} \ {NilRef})
    /\ IF proc = "starting"
       THEN proc' = "refused" /\ rpc' = "done"
       ELSE proc' = proc /\ rpc' = "setLock"

\* containerd.New and NamespaceService().List; sandboxMap := make(map)
getSandboxes_Namespaces ==
    /\ UNCHANGED hvars
    /\ proc \in {"starting", "running"}
    /\ rpc = "getSandboxes"
    /\ \E answered \in BOOLEAN :
        IF answered
        THEN LET r == Fresh(RefsInUse)
             IN /\ rmap' = r
                /\ mem' = [mem EXCEPT ![r] = EmptyMap]
                /\ rns' = NamespaceList
                /\ rpc' = "list"
                /\ proc' = proc
        ELSE getSandboxesFails
    /\ UNCHANGED <<ext, queue, subErr, nchg, sandboxes, lock, lpc, lev, last>>

\* initSandboxByNamespaceFunc(namespace) for the next namespace
getSandboxes_Containers ==
    /\ UNCHANGED hvars
    /\ proc \in {"starting", "running"}
    /\ rpc = "list"
    /\ \E answered \in BOOLEAN :
        IF answered
        THEN /\ mem' = [mem EXCEPT ![rmap] = AddSandboxes(mem[rmap], Head(rns))]
             /\ rns' = Tail(rns)
             /\ rpc' = IF Tail(rns) = <<>> THEN "setLock" ELSE "list"
             /\ UNCHANGED <<rmap, proc>>
        ELSE getSandboxesFails
    /\ UNCHANGED <<ext, queue, subErr, nchg, sandboxes, lock, lpc, lev, last>>

set_Lock_startsListener ==
    /\ UNCHANGED hvars
    /\ proc \in {"starting", "running"}
    /\ rpc = "setLock"
    /\ lock = "none"
    /\ lock' = ListerTask
    /\ rpc' = "setBody"
    /\ lpc' = IF proc = "starting" THEN "start" ELSE lpc
    /\ UNCHANGED <<ext, queue, subErr, nchg, proc, mem, sandboxes, lev,
                   last, rns, rmap>>

\* sc.Lock() in init / set
set_Lock ==
    /\ UNCHANGED hvars
    /\ proc \in {"starting", "running"}
    /\ rpc = "setLock"
    /\ lock = "none"
    /\ lock' = ListerTask
    /\ rpc' = "setBody"
    /\ UNCHANGED <<ext, queue, subErr, nchg, proc, mem, sandboxes, lpc, lev,
                   last, rns, rmap>>

\* sc.sandboxes = sandboxes; deferred Unlock
set_Body ==
    /\ UNCHANGED hvars
    /\ proc \in {"starting", "running"}
    /\ rpc = "setBody"
    /\ sandboxes' = init(sandboxes, rmap)
    /\ mem' = Collect(mem, {sandboxes', rmap, ssnap} \ {NilRef})
    /\ lock' = "none"
    /\ rpc' = "setDone"
    /\ last' = [by |-> ListerTask, op |-> "init", id |-> "", val |-> "",
                ok |-> rmap # NilRef,
                diff |-> Deref(mem, sandboxes) # Deref(mem, rmap)]
    /\ UNCHANGED <<ext, queue, subErr, nchg, proc, lpc, lev, rns, rmap>>

\* At startup initSandboxCache returns nil and NewMAgent starts the listener
\* (and the agent its updater); in the updater, time.Sleep and the next pass.
set_Return ==
    /\ UNCHANGED hvars
    /\ proc \in {"starting", "running"}
    /\ rpc = "setDone"
    /\ rpc' = "getSandboxes"
    /\ rmap' = NilRef
    /\ mem' = Collect(mem, {sandboxes, ssnap} \ {NilRef})
    /\ last' = Forget(ListerTask)
    /\ IF proc = "starting"
       THEN proc' = "running" /\ lpc' = "start"
       ELSE UNCHANGED <<proc, lpc>>
    /\ UNCHANGED <<ext, queue, subErr, nchg, sandboxes, lock, lev, rns>>

-----------------------------------------------------------------------------
(* startEventsListener *)

\* containerd.New(addr) and Subscribe
Listener_Connect ==
    /\ UNCHANGED hvars
    /\ proc = "running"
    /\ lpc = "start"
    /\ \E connected \in BOOLEAN :
        lpc' = IF connected THEN "select" ELSE "unconnected"
    /\ UNCHANGED <<ext, queue, subErr, nchg, proc, mem, sandboxes, lock, lev,
                   last, rpc, rns, rmap>>

\* json.Unmarshal(eventBody, &cc) or (..., &cd): what the listener reads
\* from the event.  If the body does not unmarshal the failure is logged and
\* the listener goes on with the zero value.
Decode(e) ==
    IF e.payload = "ok" THEN e ELSE [e EXCEPT !.id = "", !.runtime = ""]

Dispatch_ignoresDelete(e) ==
    IF e.payload = "notAny" THEN "select"
    ELSE IF e.topic = TopicCreate
         THEN IF Decode(e).runtime # kataRuntimeName THEN "select" ELSE "getContainer"
         ELSE "log"

Dispatch_deletesOnAny(e) ==
    IF e.payload = "notAny" THEN "select"
    ELSE IF e.topic = TopicCreate
         THEN IF Decode(e).runtime # kataRuntimeName THEN "select" ELSE "getContainer"
         ELSE "delLock"

\* Where the listener goes with the event e: back to the select (continue),
\* to getContainer, to deleteIfExists, or to the Debugf of other events.
Dispatch(e) ==
    IF e.payload = "notAny" THEN "select"
    ELSE IF e.topic = TopicCreate
         THEN IF Decode(e).runtime # kataRuntimeName THEN "select" ELSE "getContainer"
         ELSE IF e.topic = TopicDelete THEN "delLock" ELSE "log"

\* case e = <-eventsCh, up to the next blocking call
Listener_Event ==
    /\ UNCHANGED hvars
    /\ proc = "running"
    /\ lpc = "select"
    /\ queue # <<>>
    /\ LET e == Head(queue)
       IN /\ queue' = Tail(queue)
          /\ lpc' = Dispatch(e)
          /\ lev' = IF lpc' = "select" THEN NoEvent ELSE Decode(e)
    /\ UNCHANGED <<ext, subErr, nchg, proc, mem, sandboxes, lock, last, rpc,
                   rns, rmap>>

Listener_Error_clears ==
    /\ UNCHANGED hvars
    /\ proc = "running"
    /\ lpc = "select"
    /\ subErr
    /\ subErr' = FALSE
    /\ lpc' = "returned"
    /\ queue' = <<>>
    /\ mem' = [mem EXCEPT ![sandboxes] = EmptyMap]
    /\ UNCHANGED <<ext, nchg, proc, sandboxes, lock, lev, last, rpc, rns, rmap>>

\* case err = <-errCh: return err.  The goroutine ends; nothing restarts it.
Listener_Error ==
    /\ UNCHANGED hvars
    /\ proc = "running"
    /\ lpc = "select"
    /\ subErr
    /\ subErr' = FALSE
    /\ lpc' = "returned"
    /\ queue' = <<>>
    /\ UNCHANGED <<ext, nchg, proc, mem, sandboxes, lock, lev, last, rpc, rns,
                   rmap>>

\* getContainer(containerClient, e.Namespace, cc.ID), then isSandboxContainer
Listener_GetContainer ==
    /\ UNCHANGED hvars
    /\ proc = "running"
    /\ lpc = "getContainer"
    /\ \E answered \in BOOLEAN :
        LET c == ext[lev.id]
            got == answered /\ c.present /\ c.namespace = lev.namespace
        IN IF got /\ isSandboxContainer(c)
           THEN lpc' = "putLock" /\ lev' = lev
           ELSE lpc' = "select" /\ lev' = NoEvent
    /\ UNCHANGED <<ext, queue, subErr, nchg, proc, mem, sandboxes, lock, last,
                   rpc, rns, rmap>>

Listener_PutLock ==
    /\ UNCHANGED hvars
    /\ proc = "running"
    /\ lpc = "putLock"
    /\ lock = "none"
    /\ lock' = "listener"
    /\ lpc' = "putBody"
    /\ UNCHANGED <<ext, queue, subErr, nchg, proc, mem, sandboxes, lev, last,
                   rpc, rns, rmap>>

\* The heap after a registry operation left the backing map as m.
Store(m) == IF sandboxes = NilRef THEN mem ELSE [mem EXCEPT ![sandboxes] = m.kv]

Listener_PutBody ==
    /\ UNCHANGED hvars
    /\ proc = "running"
    /\ lpc = "putBody"
    /\ LET r == putIfNotExists(Deref(mem, sandboxes), lev.id, lev.namespace)
       IN IF r.panic
          THEN \* the panic unwinds the goroutine and ends the process
               /\ proc' = "crashed"
               /\ UNCHANGED <<mem, lock, lpc, last>>
          ELSE /\ mem' = Store(r.map)
               /\ lock' = "none"
               /\ lpc' = "log"
               /\ last' = [by |-> "listener", op |-> "put", id |-> lev.id,
                           val |-> lev.namespace, ok |-> r.ok,
                           diff |-> r.map # Deref(mem, sandboxes)]
               /\ proc' = proc
    /\ UNCHANGED <<ext, queue, subErr, nchg, sandboxes, lev, rpc, rns, rmap>>

Listener_DelLock ==
    /\ UNCHANGED hvars
    /\ proc = "running"
    /\ lpc = "delLock"
    /\ lock = "none"
    /\ lock' = "listener"
    /\ lpc' = "delBody"
    /\ UNCHANGED <<ext, queue, subErr, nchg, proc, mem, sandboxes, lev, last,
                   rpc, rns, rmap>>

Listener_DelBody_keepsLock ==
    /\ UNCHANGED hvars
    /\ proc = "running"
    /\ lpc = "delBody"
    /\ LET r == deleteIfExists(Deref(mem, sandboxes), lev.id)
       IN /\ mem' = Store(r.map)
          /\ last' = [by |-> "listener", op |-> "delete", id |-> lev.id,
                      val |-> r.val, ok |-> r.ok,
                      diff |-> r.map # Deref(mem, sandboxes)]
    /\ lpc' = "log"
    /\ UNCHANGED <<ext, queue, subErr, nchg, proc, sandboxes, lock, lev, rpc,
                   rns, rmap>>

Listener_DelBody ==
    /\ UNCHANGED hvars
    /\ proc = "running"
    /\ lpc = "delBody"
    /\ LET r == deleteIfExists(Deref(mem, sandboxes), lev.id)
       IN /\ mem' = Store(r.map)
          /\ last' = [by |-> "listener", op |-> "delete", id |-> lev.id,
                      val |-> r.val, ok |-> r.ok,
                      diff |-> r.map # Deref(mem, sandboxes)]
    /\ lock' = "none"
    /\ lpc' = "log"
    /\ UNCHANGED <<ext, queue, subErr, nchg, proc, sandboxes, lev, rpc, rns,
                   rmap>>

\* logrus.Infof of the outcome, and on to the next select
Listener_Log ==
    /\ UNCHANGED hvars
    /\ proc = "running"
    /\ lpc = "log"
    /\ lpc' = "select"
    /\ lev' = NoEvent
    /\ last' = Forget("listener")
    /\ UNCHANGED <<ext, queue, subErr, nchg, proc, mem, sandboxes, lock, rpc,
                   rns, rmap>>

-----------------------------------------------------------------------------
(* Metric families.  A name is its sequence of lexemes ("go_x" is          *)
(* <<"go", "_", "x">>), so that strings.HasPrefix and concatenation are    *)
(* what they are on strings.                                               *)

HasPrefix(name, prefix) ==
    /\ Len(name) >= Len(prefix)
    /\ SubSeq(name, 1, Len(prefix)) = prefix

promNamespaceManagementAgent == <<"kata", "_", "magent">>
ShimPrefix == <<"kata", "_", "shim", "_">>
GoPrefix == <<"go", "_">>
ProcessPrefix == <<"process", "_">>

Sample(v) == [label |-> <<>>, value |-> v]
Family(name, metric) == [name |-> name, metric |-> metric]

NameX == <<"X">>
NameProcessCPU == <<"process", "_", "cpu">>
NameGoroutines == <<"go", "_", "goroutines">>
OwnName(n) == promNamespaceManagementAgent \o <<"_">> \o n

\* prometheus.DefaultGatherer.Gather(): the four families registered by
\* init() and the default go / process collectors, sorted by name.
Gather(p) ==
    << Family(NameGoroutines, <<Sample(1)>>),
       Family(OwnName(<<"running_shim_count">>), <<Sample(p.runningShimCount)>>),
       Family(OwnName(<<"scrape_count">>), <<Sample(p.scrapeCount)>>),
       Family(OwnName(<<"scrape_durations_histogram_million_seconds">>),
              <<Sample(p.observations)>>),
       Family(OwnName(<<"scrape_failed_count">>), <<Sample(p.scrapeFailedCount)>>),
       Family(NameProcessCPU, <<Sample(1)>>) >>

\* ProcessMetricsRequest, the loop over mfs: the name each own family is
\* written under.
OwnRename(name) ==
    IF ~HasPrefix(name, promNamespaceManagementAgent)
    THEN promNamespaceManagementAgent \o <<"_">> \o name
    ELSE name

\* What the loop over mfs writes: an encode failure is logged and the loop
\* goes on with the next family.  (orig records the name Gather gave.)
EncodeOwn(mfs, bad) ==
    LET renamed == [i \in 1..Len(mfs) |->
                      [src |-> "own", name |-> OwnRename(mfs[i].name),
                       metric |-> mfs[i].metric, orig |-> mfs[i].name]]
    IN SelectSeq(renamed, LAMBDA f : f.name \notin bad)

Relabel_keepsName(mf, sandboxID) ==
    [name |-> mf.name,
     metric |-> [j \in 1..Len(mf.metric) |->
                   [mf.metric[j] EXCEPT
                      !.label = Append(@, [name |-> "sandbox_id",
                                           value |-> sandboxID])]]]

\* getSandboxMetrics, the loop over list: every sample gets the label
\* sandbox_id appended, go_ and process_ families get the prefix kata_shim_.
Relabel(mf, sandboxID) ==
    [name |-> IF HasPrefix(mf.name, GoPrefix) \/ HasPrefix(mf.name, ProcessPrefix)
              THEN ShimPrefix \o mf.name
              ELSE mf.name,
     metric |-> [j \in 1..Len(mf.metric) |->
                   [mf.metric[j] EXCEPT
                      !.label = Append(@, [name |-> "sandbox_id",
                                           value |-> sandboxID])]]]

\* getSandboxMetrics(sandboxID, namespace), given what the sandbox's endpoint
\* answers: no address file, no answer within the timeout, a body that does
\* not decode (after answer.families were decoded), or the families.
getSandboxMetrics(sandboxID, answer) ==
    IF answer.status # "ok"
    THEN [err |-> TRUE, list |-> <<>>]
    ELSE [err |-> FALSE,
          list |-> [i \in 1..Len(answer.families) |->
                      Relabel(answer.families[i], sandboxID)]]

RECURSIVE Flatten(_)
Flatten(lists) ==
    IF lists = <<>> THEN <<>> ELSE Head(lists) \o Flatten(Tail(lists))

EmptyMetricsMap == [k \in {} |-> Family(<<>>, <<>>)]

MergeOne_overwrite(mm, mf) ==
    [k \in DOMAIN mm \cup {mf.name} |-> IF k = mf.name THEN mf ELSE mm[k]]

MergeOne_keepsFirst(mm, mf) ==
    IF mf.name \in DOMAIN mm
    THEN mm
    ELSE [k \in DOMAIN mm \cup {mf.name} |-> IF k = mf.name THEN mf ELSE mm[k]]

\* One step of the merge loop: append to the family of that name, or insert.
MergeOne(mm, mf) ==
    IF mf.name \in DOMAIN mm
    THEN [mm EXCEPT ![mf.name].metric = @ \o mf.metric]
    ELSE [k \in DOMAIN mm \cup {mf.name} |-> IF k = mf.name THEN mf ELSE mm[k]]

RECURSIVE MergeAll(_, _)
MergeAll(mm, mfs) ==
    IF mfs = <<>> THEN mm ELSE MergeAll(MergeOne(mm, Head(mfs)), Tail(mfs))

\* aggregateSandboxMetrics, the merge of sandboxMetricsList into metricsMap
Merge(sandboxMetricsList) == MergeAll(EmptyMetricsMap, Flatten(sandboxMetricsList))

Orders(S) ==
    {o \in [1..Cardinality(S) -> S] : \A i, j \in 1..Cardinality(S) : o[i] = o[j] => i = j}

\* aggregateSandboxMetrics, the loop over metricsMap in the order the range
\* produces: the first encode failure ends the loop and is returned.
EncodeAggregated(mm, order, bad) ==
    LET failing == {i \in 1..Len(order) : order[i] \in bad}
        stop == IF failing = {} THEN Len(order) + 1
                ELSE CHOOSE i \in failing : \A j \in failing : i <= j
    IN [err |-> failing # {},
        written |-> [i \in 1..(stop - 1) |->
                       [src |-> "sandbox", name |-> order[i],
                        metric |-> mm[order[i]].metric]]]

-----------------------------------------------------------------------------
(* ProcessMetricsRequest *)

Write_inFront(body, written) == written \o body

\* encoder.Encode writes to the response's stream: what is written later
\* follows what was written before
Write(body, written) == body \o written

len_answering(m) == Cardinality({id \in DOMAIN m : shim[id].status = "ok"})

\* len(sandboxes)
len(m) == Cardinality(DOMAIN m)

Observe_skips(p) == p

\* The deferred scrapeDurationsHistogram.Observe(...), run when the handler
\* returns
Observe(p) == [p EXCEPT !.observations = @ + 1]

NoResponse == [code |-> 0, gzip |-> FALSE, body |-> <<>>, raw |-> <<>>]

\* From the start of the handler to the Lock of getAllSandboxes: count the
\* scrape, negotiate, gather and write the agent's own families.  If Gather
\* fails the handler answers 500 and returns (the deferred Observe runs).
ProcessMetricsRequest_Begin_ignoresGatherErr ==
    /\ proc = "running"
    /\ spc = "idle"
    /\ nscrapes < MaxScrapes
    /\ nscrapes' = nscrapes + 1
    /\ prom' = [prom EXCEPT !.scrapeCount = @ + 1]
    /\ resp' = [code |-> 200, gzip |-> req.gzip,
                body |-> EncodeOwn(Gather(prom'), req.encBad), raw |-> <<>>]
    /\ spc' = "getAllLock"
    /\ UNCHANGED <<shim, req, ssnap, sstart, svisited, slist, metricsMap>>
    /\ UNCHANGED <<ovars, pvars, avars, gvars, wvars, proc, mem, lock>>

ProcessMetricsRequest_Begin ==
    /\ proc = "running"
    /\ spc = "idle"
    /\ nscrapes < MaxScrapes
    /\ nscrapes' = nscrapes + 1
    /\ LET counted == [prom EXCEPT !.scrapeCount = @ + 1]
       IN IF req.gatherErr
          THEN /\ resp' = [code |-> 500, gzip |-> req.gzip, body |-> <<>>,
                           raw |-> IF req.gzip THEN <<"error", "gzip trailer">>
                                   ELSE <<"error">>]
               /\ prom' = Observe(counted)
               /\ spc' = "idle"
          ELSE /\ resp' = [code |-> 200, gzip |-> req.gzip,
                           body |-> EncodeOwn(Gather(counted), req.encBad),
                           raw |-> <<>>]
               /\ prom' = counted
               /\ spc' = "getAllLock"
    /\ UNCHANGED <<shim, req, ssnap, sstart, svisited, slist, metricsMap>>
    /\ UNCHANGED <<ovars, pvars, avars, gvars, wvars, proc, mem, lock>>

\* sc.Lock() in getAllSandboxes
getAllSandboxes_Lock ==
    /\ proc = "running"
    /\ spc = "getAllLock"
    /\ lock = "none"
    /\ lock' = "handler"
    /\ spc' = "getAllBody"
    /\ UNCHANGED <<shim, req, prom, nscrapes, ssnap, sstart, svisited, slist,
                   metricsMap, resp>>
    /\ UNCHANGED <<ovars, pvars, avars, gvars, wvars, proc, mem>>

\* return sc.sandboxes, deferred Unlock; runningShimCount.Set(len(sandboxes))
getAllSandboxes_Body ==
    /\ proc = "running"
    /\ spc = "getAllBody"
    /\ ssnap' = getAllSandboxes(sandboxes)
    /\ lock' = "none"
    /\ sstart' = Deref(mem, ssnap').kv
    /\ prom' = [prom EXCEPT !.runningShimCount = len(sstart')]
    /\ svisited' = {}
    /\ slist' = <<>>
    /\ metricsMap' = EmptyMetricsMap
    /\ spc' = "range"
    /\ UNCHANGED <<shim, req, nscrapes, resp>>
    /\ UNCHANGED <<ovars, pvars, avars, gvars, wvars, proc, mem>>

\* One iteration of "for sandboxID, namespace := range sandboxes": the range
\* produces an entry the map holds now, and getSandboxMetrics is called.
Range_Next(sandboxID) ==
    /\ proc = "running"
    /\ spc = "range"
    /\ sandboxID \in DOMAIN Deref(mem, ssnap).kv \ svisited
    /\ svisited' = svisited \cup {sandboxID}
    /\ LET r == getSandboxMetrics(sandboxID, shim[sandboxID])
       IN slist' = IF r.err THEN slist ELSE Append(slist, r.list)
    /\ UNCHANGED <<shim, req, prom, nscrapes, spc, ssnap, sstart, metricsMap,
                   resp>>
    /\ UNCHANGED <<ovars, pvars, avars, gvars, wvars, proc, mem, lock>>

\* The range reads the map while the listener is inside putIfNotExists or
\* deleteIfExists on the same map: a data race.  The runtime may detect it
\* ("concurrent map iteration and map write") and end the process.
Range_Race ==
    /\ proc = "running"
    /\ spc = "range"
    /\ ssnap # NilRef
    /\ ssnap = sandboxes
    /\ lock = "listener"
    /\ proc' = "crashed"
    /\ UNCHANGED hvars
    /\ UNCHANGED <<ovars, pvars, avars, gvars, wvars, mem, lock>>

\* The range is over (entries created during the iteration may be skipped):
\* merge, write the merged families, count a failure if encoding failed, and
\* return (the deferred Observe runs).
Range_End ==
    /\ proc = "running"
    /\ spc = "range"
    /\ \A k \in DOMAIN Deref(mem, ssnap).kv \ svisited : k \notin DOMAIN sstart
    /\ metricsMap' = Merge(slist)
    /\ \E order \in Orders(DOMAIN metricsMap') :
        LET e == EncodeAggregated(metricsMap', order, req.encBad)
        IN /\ resp' = [resp EXCEPT !.body = Write(@, e.written)]
           /\ prom' = Observe([prom EXCEPT
                         !.scrapeFailedCount = IF e.err THEN @ + 1 ELSE @])
    /\ spc' = "idle"
    /\ ssnap' = NilRef
    /\ mem' = Collect(mem, {sandboxes, rmap} \ {NilRef})
    /\ UNCHANGED <<shim, req, nscrapes, sstart, svisited, slist>>
    /\ UNCHANGED <<ovars, pvars, avars, gvars, wvars, proc, lock>>

\* The handler with nobody writing the registry
Handler ==
    \/ ProcessMetricsRequest_Begin
    \/ getAllSandboxes_Lock
    \/ getAllSandboxes_Body
    \/ \E id \in FedIDs : Range_Next(id)
    \/ Range_End

-----------------------------------------------------------------------------
(* gzipPool and the requests that share it.  net/http runs every request   *)
(* in its own goroutine; what a request does with the pool is              *)
(* ProcessMetricsRequest reduced to its exits and its deferred calls.      *)

Compressors == 1..MaxCompressors
RequestIDs == {"r1", "r2"}

\* How a request leaves the handler: normally, by the Gather error (500),
\* after an encode error, or by a panic while encoding
Paths == {"ok", "gatherErr", "encodeErr", "panic"}

NoRequest ==
    [pc |-> "idle", gzip |-> FALSE, path |-> "ok", gz |-> 0, used |-> 0,
     defers |-> <<>>, log |-> <<>>]

PoolIdle ==
    /\ pool = {}
    /\ gzstate = [x \in Compressors |-> "none"]
    /\ greq = [r \in RequestIDs |-> NoRequest]
    /\ gnreq = 0

PoolOnly == UNCHANGED <<ext, queue, subErr, nchg, proc, mem, sandboxes, lock,
                        lpc, lev, last, rpc, rns, rmap, shim, req, prom,
                        nscrapes, spc, ssnap, sstart, svisited, slist,
                        metricsMap, resp, avars, pvars, ovars>>

\* net/http calls the handler for a new request
Request_Begin(r, gzip, path) ==
    /\ greq[r].pc \in {"idle", "done"}
    /\ gnreq < MaxRequests
    /\ gnreq' = gnreq + 1
    /\ greq' = [greq EXCEPT ![r] =
                  [NoRequest EXCEPT !.pc = IF gzip THEN "get" ELSE "gather",
                                    !.gzip = gzip, !.path = path]]
    /\ UNCHANGED <<pool, gzstate>>
    /\ PoolOnly

PoolTake_keeps(p, x) == p

\* sync.Pool.Get hands out an item by removing it from the pool
PoolTake(p, x) == p \ {x}

\* The request now has gz and has deferred gzipPool.Put(gz)
Acquired(r, x) ==
    [greq EXCEPT ![r].gz = x, ![r].used = x, ![r].pc = "reset",
                 ![r].defers = <<"Put">>, ![r].log = <<"Get">>]

\* gzipPool.Get() returns a pooled compressor; defer gzipPool.Put(gz)
Pool_Get(r, x) ==
    /\ greq[r].pc = "get"
    /\ x \in pool
    /\ pool' = PoolTake(pool, x)
    /\ greq' = Acquired(r, x)
    /\ UNCHANGED <<gzstate, gnreq>>
    /\ PoolOnly

\* gzipPool.Get() finds nothing (the pool gives no promise to find what was
\* put) and calls New; defer gzipPool.Put(gz)
Pool_New(r, x) ==
    /\ greq[r].pc = "get"
    /\ gzstate[x] = "none"
    /\ gzstate' = [gzstate EXCEPT ![x] = "new"]
    /\ greq' = Acquired(r, x)
    /\ UNCHANGED <<pool, gnreq>>
    /\ PoolOnly

\* gz.Reset(w); defer gz.Close(); writer = gz
Writer_Reset(r) ==
    /\ greq[r].pc = "reset"
    /\ gzstate' = [gzstate EXCEPT ![greq[r].gz] = "open"]
    /\ greq' = [greq EXCEPT ![r].pc = "gather",
                            ![r].defers = Append(@, "Close"),
                            ![r].log = Append(@, "Reset")]
    /\ UNCHANGED <<pool, gnreq>>
    /\ PoolOnly

\* prometheus.DefaultGatherer.Gather(): on an error the handler writes the
\* 500 and returns
Request_Gather(r) ==
    /\ greq[r].pc = "gather"
    /\ greq' = [greq EXCEPT ![r].pc = IF greq[r].path = "gatherErr"
                                       THEN "defers" ELSE "encode"]
    /\ UNCHANGED <<pool, gzstate, gnreq>>
    /\ PoolOnly

\* The two encode loops: they end, or an encode error ends the second, or
\* the encoder panics; in each case the deferred calls are next
Request_Encode(r) ==
    /\ greq[r].pc = "encode"
    /\ greq' = [greq EXCEPT ![r].pc = "defers"]
    /\ UNCHANGED <<pool, gzstate, gnreq>>
    /\ PoolOnly

\* The deferred calls run last-in first-out: gz.Close(), then
\* gzipPool.Put(gz); after the last one the handler has returned
Request_Defer(r) ==
    /\ greq[r].pc = "defers"
    /\ LET d == greq[r].defers
           x == greq[r].gz
       IN IF d = <<>>
          THEN /\ greq' = [greq EXCEPT ![r].pc = "done"]
               /\ UNCHANGED <<pool, gzstate>>
          ELSE /\ greq' = [greq EXCEPT
                             ![r].defers = SubSeq(d, 1, Len(d) - 1),
                             ![r].log = Append(@, d[Len(d)]),
                             ![r].gz = IF d[Len(d)] = "Put" THEN 0 ELSE @]
               /\ IF d[Len(d)] = "Close"
                  THEN /\ gzstate' = [gzstate EXCEPT ![x] = "closed"]
                       /\ UNCHANGED pool
                  ELSE /\ pool' = pool \cup {x}
                       /\ UNCHANGED gzstate
    /\ UNCHANGED gnreq
    /\ PoolOnly

\* A garbage collection empties the pool
Pool_GC ==
    /\ pool # {}
    /\ pool' = {}
    /\ gzstate' = [x \in Compressors |-> IF x \in pool THEN "none" ELSE gzstate[x]]
    /\ UNCHANGED <<greq, gnreq>>
    /\ PoolOnly

-----------------------------------------------------------------------------
(* virtcontainers: validateProxyParams *)

\* proxyParams values: each string empty or not, the logger nil or set; hid
\* and debug are fields the validation does not read
ProxyParams ==
    [id : {"", "foobar1"}, agentURL : {"", "foobar2"},
     consoleURL : {"", "foobar3"}, logger : {"nil", "set"},
     hid : {0, 1}, debug : BOOLEAN]

\* proxyParams{}
NoParams ==
    [id |-> "", agentURL |-> "", consoleURL |-> "", logger |-> "nil",
     hid |-> 0, debug |-> FALSE]

validateProxyParams_noLogger(p) ==
    IF p.id = "" \/ p.agentURL = "" \/ p.consoleURL = ""
    THEN "Invalid proxy parameters"
    ELSE "nil"

\* The error validateProxyParams returns ("nil": no error)
validateProxyParams(p) ==
    IF p.id = "" \/ p.agentURL = "" \/ p.consoleURL = ""
    THEN "Invalid proxy parameters"
    ELSE IF p.logger = "nil"
         THEN "Invalid proxy parameter: proxy logger is not set"
         ELSE "nil"

\* err := validateProxyParams(p)
Proxy_Validate ==
    /\ perr = "unset"
    /\ perr' = validateProxyParams(pparams)
    /\ UNCHANGED <<ext, queue, subErr, nchg, proc, mem, sandboxes, lock, lpc,
                   lev, last, rpc, rns, rmap, shim, req, prom, nscrapes, spc,
                   ssnap, sstart, svisited, slist, metricsMap, resp, gvars,
                   avars, pparams, ovars>>

\* The caller sets a field of p and validates again (as TestValidateProxyParams
\* does)
Proxy_Set(p) ==
    /\ perr # "unset"
    /\ p # pparams
    /\ pparams' = p
    /\ perr' = "unset"
    /\ UNCHANGED <<ext, queue, subErr, nchg, proc, mem, sandboxes, lock, lpc,
                   lev, last, rpc, rns, rmap, shim, req, prom, nscrapes, spc,
                   ssnap, sstart, svisited, slist, metricsMap, resp, gvars,
                   avars, ovars>>

-----------------------------------------------------------------------------
(* containerd-shim-v2: serveMetrics, the handler of a sandbox's /metrics.   *)
(* net/http runs every request in its own goroutine; the package variable  *)
(* isSupportAgentMetricsAPI is read and written without synchronisation.    *)

ShimRequests == {"m1", "m2"}
MaxShimRequests == 3

\* What s.sandbox.GetAgentMetrics() returns: the metrics, or a gRPC error
AgentCodes == {"OK", "Unimplemented", "Unavailable"}

NoShimRequest ==
    [pc |-> "idle", gather |-> "none", own |-> FALSE, code |-> "none",
     agent |-> FALSE, latched |-> FALSE]

ShimIdle ==
    /\ isSupportAgentMetricsAPI = TRUE
    /\ sreq = [r \in ShimRequests |-> NoShimRequest]
    /\ snreq = 0

ShimOnly ==
    UNCHANGED <<ext, queue, subErr, nchg, proc, mem, sandboxes, lock, lpc, lev,
                last, rpc, rns, rmap, shim, req, prom, nscrapes, spc, ssnap,
                sstart, svisited, slist, metricsMap, resp, gvars, avars, pvars,
                bvars>>

latch_anyError(support, code) == IF code # "OK" THEN FALSE ELSE support

\* if isGRPCErrorCode(codes.Unimplemented, err) { isSupportAgentMetricsAPI = false }
latch(support, code) == IF code = "Unimplemented" THEN FALSE ELSE support

\* From the start of serveMetrics to the test of isSupportAgentMetricsAPI:
\* update and gather the shim's metrics; if Gather fails, return; otherwise
\* encode the families to the response (an encode error is dropped).
\* latched records whether the variable was false when the request came in.
serveMetrics_Begin(r, gathered) ==
    /\ sreq[r].pc \in {"idle", "done"}
    /\ snreq < MaxShimRequests
    /\ snreq' = snreq + 1
    /\ sreq' = [sreq EXCEPT ![r] =
                  [pc |-> IF gathered THEN "check" ELSE "done",
                   gather |-> IF gathered THEN "ok" ELSE "err",
                   own |-> gathered, code |-> "none", agent |-> FALSE,
                   latched |-> ~isSupportAgentMetricsAPI]]
    /\ UNCHANGED isSupportAgentMetricsAPI
    /\ ShimOnly

\* if !isSupportAgentMetricsAPI { return }
serveMetrics_Check(r) ==
    /\ sreq[r].pc = "check"
    /\ sreq' = [sreq EXCEPT ![r].pc =
                  IF isSupportAgentMetricsAPI THEN "call" ELSE "done"]
    /\ UNCHANGED <<isSupportAgentMetricsAPI, snreq>>
    /\ ShimOnly

\* s.sandbox.GetAgentMetrics() and what follows: on an error, log, clear the
\* variable if the code is Unimplemented, return; otherwise decode, rename
\* and encode the agent's families.
serveMetrics_GetAgentMetrics(r, code) ==
    /\ sreq[r].pc = "call"
    /\ sreq' = [sreq EXCEPT ![r].pc = "done", ![r].code = code,
                            ![r].agent = (code = "OK")]
    /\ isSupportAgentMetricsAPI' = latch(isSupportAgentMetricsAPI, code)
    /\ UNCHANGED snreq
    /\ ShimOnly

-----------------------------------------------------------------------------
(* virtcontainers: proxyBuiltin, its start and stop.  A URL is its sequence  *)
(* of lexemes, as the names of the metric families are.                      *)

HybridVSockScheme == <<"hvsock">>
MaxCalls == 3

BuiltinParams ==
    [id : {"", "foobar1"}, agentURL : {"foobar2"},
     consoleURL : {<<>>, <<"unix", "://", "console">>, <<"hvsock", "://", "console">>},
     logger : {"nil", "set"}, hid : {1}, debug : BOOLEAN]

NoBuiltinParams ==
    [id |-> "", agentURL |-> "", consoleURL |-> <<>>, logger |-> "nil",
     hid |-> 0, debug |-> FALSE]

NoCall ==
    [n |-> 0, op |-> "none", params |-> NoBuiltinParams, pid |-> 0, url |-> "",
     err |-> "nil"]

BuiltinIdle ==
    /\ psandboxID = ""
    /\ pconn = "nil"
    /\ bcall = NoCall

BuiltinOnly ==
    UNCHANGED <<ext, queue, subErr, nchg, proc, mem, sandboxes, lock, lpc, lev,
                last, rpc, rns, rmap, shim, req, prom, nscrapes, spc, ssnap,
                sstart, svisited, slist, metricsMap, resp, gvars, avars, pvars,
                mvars>>

\* proxyBuiltin.validateParams
validateParams(params) ==
    IF params.id = "" \/ params.agentURL = "" \/ Len(params.consoleURL) = 0
    THEN "Invalid proxy parameters"
    ELSE IF params.logger = "nil"
         THEN "Invalid proxy parameter: proxy logger is not set"
         ELSE "nil"

consoleWatched == pconn # "nil"

\* Whether start goes on to watchConsole
WatchesConsole(params) ==
    /\ params.debug
    /\ params.consoleURL # <<>>
    /\ ~HasPrefix(params.consoleURL, HybridVSockScheme)

Returned(params, pid, url, err) ==
    [n |-> bcall.n + 1, op |-> "start", params |-> params, pid |-> pid,
     url |-> url, err |-> err]

stop_resetsAlways ==
    /\ bcall.n < MaxCalls
    /\ pconn' = "nil"
    /\ psandboxID' = ""
    /\ bcall' = [n |-> bcall.n + 1, op |-> "stop", params |-> NoBuiltinParams,
                 pid |-> 0, url |-> "", err |-> "nil"]
    /\ BuiltinOnly

\* proxyBuiltin.start(params); watchConsole dials the console socket, which
\* answers or not.
start(params) ==
    /\ bcall.n < MaxCalls
    /\ LET verr == validateParams(params)
       IN IF verr # "nil"
          THEN /\ bcall' = Returned(params, -1, "", verr)
               /\ UNCHANGED <<psandboxID, pconn>>
          ELSE IF consoleWatched
          THEN /\ bcall' = Returned(params, -1, "", "The console has been watched")
               /\ UNCHANGED <<psandboxID, pconn>>
          ELSE IF WatchesConsole(params)
          THEN \E dialed \in BOOLEAN :
                 IF dialed
                 THEN /\ psandboxID' = params.id
                      /\ pconn' = "open"
                      /\ bcall' = Returned(params, params.hid, params.agentURL, "nil")
                 ELSE /\ psandboxID' = ""
                      /\ pconn' = pconn
                      /\ bcall' = Returned(params, -1, "", "dial")
          ELSE /\ psandboxID' = params.id
               /\ pconn' = pconn
               /\ bcall' = Returned(params, params.hid, params.agentURL, "nil")
    /\ BuiltinOnly

\* proxyBuiltin.stop(pid)
stop ==
    /\ bcall.n < MaxCalls
    /\ IF pconn # "nil"
       THEN pconn' = "nil" /\ psandboxID' = ""
       ELSE UNCHANGED <<psandboxID, pconn>>
    /\ bcall' = [n |-> bcall.n + 1, op |-> "stop", params |-> NoBuiltinParams,
                 pid |-> 0, url |-> "", err |-> "nil"]
    /\ BuiltinOnly

-----------------------------------------------------------------------------
(* Inputs of the handler *)

Failure(status) == [status |-> status, families |-> <<>>]
Answer(families) == [status |-> "ok", families |-> families]

FamilyX == Family(NameX, <<Sample(1)>>)
FamilyX2 == Family(NameX, <<Sample(1), Sample(2)>>)
FamilyCPU == Family(NameProcessCPU, <<Sample(3)>>)
FamilyScrapeCount == Family(OwnName(<<"scrape_count">>), <<Sample(7)>>)

\* A family whose sample already carries a label named sandbox_id
FamilyLabeled ==
    Family(NameX, <<[label |-> <<[name |-> "sandbox_id", value |-> "sx"]>>,
                     value |-> 4]>>)

Answers ==
    { Failure("timeout"),
      [status |-> "baddata", families |-> <<FamilyX>>],
      Answer(<<FamilyX>>),
      Answer(<<FamilyX2, FamilyCPU>>),
      Answer(<<FamilyScrapeCount>>),
      Answer(<<FamilyLabeled>>) }

NoFaults == [gzip |-> FALSE, gatherErr |-> FALSE, encBad |-> {}]

Requests ==
    { NoFaults,
      [gzip |-> TRUE, gatherErr |-> FALSE, encBad |-> {NameX}],
      [gzip |-> FALSE, gatherErr |-> FALSE,
       encBad |-> {OwnName(<<"scrape_count">>)}],
      [gzip |-> TRUE, gatherErr |-> TRUE, encBad |-> {}] }

NoMetrics ==
    [scrapeCount |-> 0, scrapeFailedCount |-> 0, runningShimCount |-> 0,
     observations |-> 0]

HandlerIdle ==
    /\ prom = NoMetrics
    /\ nscrapes = 0
    /\ spc = "idle"
    /\ ssnap = NilRef
    /\ sstart = EmptyMap
    /\ svisited = {}
    /\ slist = <<>>
    /\ metricsMap = EmptyMetricsMap
    /\ resp = NoResponse
    /\ PoolIdle
    /\ perr = "unset"
    /\ ShimIdle
    /\ BuiltinIdle

-----------------------------------------------------------------------------
(* The specifications *)

\* NewMAgent has built the agent: an empty registry (make(map)), nothing
\* started yet, initSandboxCache about to list.
Init ==
    /\ ext \in InitialExt
    /\ queue = <<>>
    /\ subErr = FALSE
    /\ nchg = 0
    /\ proc = "starting"
    /\ mem = [r \in Refs |-> EmptyMap]
    /\ sandboxes = 1
    /\ lock = "none"
    /\ lpc = "off"
    /\ lev = NoEvent
    /\ last = NoOp
    /\ rpc = "getSandboxes"
    /\ rns = <<>>
    /\ rmap = NilRef
    /\ shim = [id \in FedIDs |-> IF id = "s1" THEN Answer(<<FamilyX>>)
                                 ELSE Failure("timeout")]
    /\ req = NoFaults
    /\ HandlerIdle
    /\ cancelled = FALSE
    /\ conf = GoodConf
    /\ pparams = NoParams

Environment ==
    \/ \E id \in IDs, d \in Descriptors, n \in 0..2 : ExtCreate(id, d, n)
    \/ \E id \in IDs, n \in 0..2 : ExtDelete(id, n)
    \/ SubscriptionFail

Noise == \E e \in NoiseEvents : ExtNoise(e)

Lister ==
    \/ getSandboxes_Namespaces
    \/ getSandboxes_Containers
    \/ set_Lock
    \/ set_Body
    \/ set_Return

Listener ==
    \/ Listener_Connect
    \/ Listener_Event
    \/ Listener_Error
    \/ Listener_GetContainer
    \/ Listener_PutLock
    \/ Listener_PutBody
    \/ Listener_DelLock
    \/ Listener_DelBody
    \/ Listener_Log

\* The registry with both of its writers: the event listener and the
\* periodic updater.
Next == Environment \/ Lister \/ Listener

Spec == Init /\ [][Next]_vars

\* The management agent as NewMAgent builds it: the registry is listed once
\* at startup, then the listener maintains it and /metrics reads it.
Startup == proc = "starting" /\ Lister

NextMAgent ==
    \/ Environment
    \/ Startup
    \/ Listener
    \/ Handler
    \/ Range_Race

SpecMAgent == Init /\ [][NextMAgent]_vars

\* The listener of the management agent on a bus that also delivers events
\* it has no use for.
NextListener ==
    \/ Environment
    \/ Noise
    \/ Startup
    \/ Listener

SpecListener == Init /\ [][NextListener]_vars

\* One agent serving scrape requests: the registry holds any subset of the
\* sandboxes, each sandbox's endpoint gives any of the answers.
InitFed ==
    /\ ext = [id \in IDs |-> Absent]
    /\ queue = <<>>
    /\ subErr = FALSE
    /\ nchg = 0
    /\ proc = "running"
    /\ \E S \in SUBSET FedIDs :
        mem = [r \in Refs |-> IF r = 1 THEN [id \in S |-> NsOf(id)] ELSE EmptyMap]
    /\ sandboxes = 1
    /\ lock = "none"
    /\ lpc = "returned"
    /\ lev = NoEvent
    /\ last = NoOp
    /\ rpc = "done"
    /\ rns = <<>>
    /\ rmap = NilRef
    /\ shim \in [FedIDs -> Answers]
    /\ \A id \in FedIDs : id \notin DOMAIN mem[1] => shim[id] = Failure("timeout")
    /\ req \in Requests
    /\ HandlerIdle
    /\ cancelled = FALSE
    /\ conf = GoodConf
    /\ pparams = NoParams

SpecFed == InitFed /\ [][Handler]_vars

\* SpecMAgent and SpecFed with the goroutines scheduled: the handler (and the
\* listener) take their next step when they can; a fetch that gets no answer
\* ends by the client's timeout, so Range_Next is a step that can be taken.
SpecMAgentLive == SpecMAgent /\ WF_vars(Handler) /\ WF_vars(Listener)

SpecFedLive == SpecFed /\ WF_vars(Handler)

\* The owner of the agent asks it to stop.  startEventsListener subscribes
\* with context.Background() and selects on the event and error channels
\* only; MAgent has no method to stop it: no step of the listener reads the
\* request.
Cancel ==
    /\ proc = "running"
    /\ ~cancelled
    /\ cancelled' = TRUE
    /\ UNCHANGED <<ext, queue, subErr, nchg, proc, mem, sandboxes, lock, lpc,
                   lev, last, rpc, rns, rmap, shim, req, prom, nscrapes, spc,
                   ssnap, sstart, svisited, slist, metricsMap, resp, gvars,
                   conf, pvars, ovars>>

NextCancel ==
    \/ Environment
    \/ Startup
    \/ Listener
    \/ Cancel

\* The management agent's listener, scheduled, and an owner that may cancel
SpecCancel == Init /\ [][NextCancel]_vars /\ WF_vars(Listener)

\* NewMAgent is called with any arguments
InitStartup ==
    /\ ext \in InitialExt
    /\ queue = <<>>
    /\ subErr = FALSE
    /\ nchg = 0
    /\ proc = "starting"
    /\ mem = [r \in Refs |-> EmptyMap]
    /\ sandboxes = 1
    /\ lock = "none"
    /\ lpc = "off"
    /\ lev = NoEvent
    /\ last = NoOp
    /\ rpc = "new"
    /\ rns = <<>>
    /\ rmap = NilRef
    /\ shim = [id \in FedIDs |-> Failure("timeout")]
    /\ req = NoFaults
    /\ HandlerIdle
    /\ cancelled = FALSE
    /\ conf \in Confs
    /\ pparams = NoParams

NextStartup ==
    \/ NewMAgent_Check
    \/ Environment
    \/ Startup
    \/ Listener

SpecStartup == InitStartup /\ [][NextStartup]_vars

\* The management agent's listener where container ids are used again
Reuse == \E id \in IDs, d \in Descriptors : ExtReplace(id, d)

NextReuse ==
    \/ Environment
    \/ Reuse
    \/ Startup
    \/ Listener

SpecReuse == Init /\ [][NextReuse]_vars

\* validateProxyParams applied to proxy parameters
NextProxy ==
    \/ Proxy_Validate
    \/ \E p \in ProxyParams : Proxy_Set(p)

InitProxy ==
    /\ ext = [id \in IDs |-> Absent]
    /\ queue = <<>>
    /\ subErr = FALSE
    /\ nchg = 0
    /\ proc = "starting"
    /\ mem = [r \in Refs |-> EmptyMap]
    /\ sandboxes = 1
    /\ lock = "none"
    /\ lpc = "off"
    /\ lev = NoEvent
    /\ last = NoOp
    /\ rpc = "getSandboxes"
    /\ rns = <<>>
    /\ rmap = NilRef
    /\ shim = [id \in FedIDs |-> Failure("timeout")]
    /\ req = NoFaults
    /\ HandlerIdle
    /\ cancelled = FALSE
    /\ conf = GoodConf
    /\ pparams \in ProxyParams

SpecProxy == InitProxy /\ [][NextProxy]_vars

\* Two concurrent requests and the compressor pool
NextPool ==
    \/ \E r \in RequestIDs, gzip \in BOOLEAN, path \in Paths :
          Request_Begin(r, gzip, path)
    \/ \E r \in RequestIDs, x \in Compressors : Pool_Get(r, x)
    \/ \E r \in RequestIDs, x \in Compressors : Pool_New(r, x)
    \/ \E r \in RequestIDs : Writer_Reset(r)
    \/ \E r \in RequestIDs : Request_Gather(r)
    \/ \E r \in RequestIDs : Request_Encode(r)
    \/ \E r \in RequestIDs : Request_Defer(r)
    \/ Pool_GC

InitPool == Init /\ ext = [id \in IDs |-> Absent]

SpecPool == InitPool /\ [][NextPool]_vars

\* The programs next to the agent start from their zero values
InitOthers == InitProxy /\ pparams = NoParams

\* The shim's metrics endpoint serving requests
NextShim ==
    \/ \E r \in ShimRequests, gathered \in BOOLEAN : serveMetrics_Begin(r, gathered)
    \/ \E r \in ShimRequests : serveMetrics_Check(r)
    \/ \E r \in ShimRequests, code \in AgentCodes : serveMetrics_GetAgentMetrics(r, code)

SpecShim == InitOthers /\ [][NextShim]_vars

\* The built-in proxy under any sequence of start and stop
NextBuiltin ==
    \/ \E params \in BuiltinParams : start(params)
    \/ stop

SpecBuiltin == InitOthers /\ [][NextBuiltin]_vars

\* Spec with its two goroutines scheduled: the updater loop and the listener
\* each take their next step when they can.  The environment owes nothing.
SpecLive == Spec /\ WF_vars(Lister) /\ WF_vars(Listener)

-----------------------------------------------------------------------------
(* Properties *)

Registry == Deref(mem, sandboxes)

\* The running kata sandboxes of the metadata service, by namespace
ExtSandboxes ==
    LET running == {id \in IDs : /\ ext[id].present
                                 /\ ext[id].runtime = kataRuntimeName
                                 /\ isSandboxContainer(ext[id])}
    IN [id \in running |-> ext[id].namespace]

ListenerActs(pc) == lpc = pc /\ (lpc' # pc \/ proc' # proc)

\* C2 (idempotent delete): every deleteIfExists(id) the listener executes on
\* an absent id returns ("", false) and leaves the registry as it was; on a
\* present id it returns (its namespace, true), removes that entry and leaves
\* every other entry as it was.
C2_IdempotentDelete ==
    [][ListenerActs("delBody") =>
        LET before == Registry.kv
            after == Registry'.kv
            id == lev.id
        IN IF id \notin DOMAIN before
           THEN /\ last'.val = "" /\ ~last'.ok
                /\ after = before
                /\ sandboxes' = sandboxes
           ELSE /\ last'.val = before[id] /\ last'.ok
                /\ DOMAIN after = DOMAIN before \ {id}
                /\ \A k \in DOMAIN after : after[k] = before[k]]_vars

\* C2's case: a delete of an absent id has returned not-found, on a
\* registry that holds other entries.
C2_Witness ==
    /\ last.by = "listener" /\ last.op = "delete"
    /\ ~last.ok /\ last.val = ""
    /\ last.id \notin DOMAIN Registry.kv
    /\ Registry.kv # EmptyMap

\* C3 (reconciliation convergence): whatever the registry holds, after
\* init / set with the map S the registry is exactly S: same ids, same
\* namespaces.
C3_ReplaceAll ==
    [][rpc = "setBody" /\ rpc' = "setDone" =>
        Registry'.kv = Deref(mem, rmap).kv]_vars

\* C3's case: a listing that differs from the registry has replaced it.
C3_Witness ==
    /\ last.by = "updater" /\ last.op = "init"
    /\ last.ok /\ last.diff

\* C4 (snapshot is a point-in-time copy): while a federation pass holds the
\* mapping getAllSandboxes returned, the mapping is what it was when it was
\* taken, and when the pass is over it has fetched exactly the sandboxes
\* that were in it then.
C4_SnapshotIsCopy ==
    /\ spc = "range" => Deref(mem, ssnap).kv = sstart
    /\ spc = "idle" => svisited = DOMAIN sstart

\* The task is about to read or write the registry's backing map.
Accesses(task) ==
    \/ /\ task = "handler"
       /\ spc = "getAllBody" \/ (spc = "range" /\ ssnap # NilRef /\ ssnap = sandboxes)
    \/ /\ task = "listener"
       /\ lpc \in {"putBody", "delBody"}
    \/ /\ task = ListerTask
       /\ rpc = "setBody"

\* C5 (atomic operations, raw map never exposed): a task that reads, iterates
\* or writes the registry's backing map holds the registry lock.
C5_LockHeld ==
    \A task \in {"handler", "listener", "main", "updater"} :
        (proc \in {"starting", "running"} /\ Accesses(task)) => lock = task

\* C6 (a failed listing pass is skipped): the step that ends a pass of the
\* updater whose listing failed leaves the registry's entries as they were,
\* and the process running.
C6_FailedPassSkipped ==
    [][rpc = "setBody" /\ rpc' = "setDone" /\ rmap = NilRef =>
        Registry'.kv = Registry.kv /\ proc' = "running"]_vars

\* C7 (resubscription): once the listener has returned the subscription's
\* error, a subscription is eventually active again, unless the process has
\* ended.
C7_Resubscribes == (lpc = "returned") ~> (Subscribed \/ proc # "running")

\* A pass of the updater whose listing failed
FailedPass == rpc \in {"setLock", "setBody", "setDone"} /\ rmap = NilRef

PassDone == spc = "idle" /\ resp.code = 200

\* The scenario of C9: three registered sandboxes, the endpoint of exactly
\* one of them times out, the other two answer, nothing else fails.
ThreeOneTimeout ==
    /\ DOMAIN Registry.kv = FedIDs
    /\ Cardinality({id \in FedIDs : shim[id].status = "timeout"}) = 1
    /\ Cardinality({id \in FedIDs : shim[id].status = "ok"}) = 2
    /\ req = NoFaults

\* The merged families of the sandboxes that answered
MergedOfAnswering ==
    LET ok == {id \in FedIDs : shim[id].status = "ok"}
    IN {Merge([i \in 1..Len(o) |-> getSandboxMetrics(o[i], shim[o[i]]).list]) :
          o \in Orders(ok)}

\* C9 (partial failure isolation): the step that ends a federation pass over
\* three sandboxes of which exactly one timed out leaves the merged families
\* of the other two and the scrape-failure counter one higher.
C9_PartialFailure ==
    [][spc = "range" /\ spc' = "idle" /\ ThreeOneTimeout =>
        /\ metricsMap' \in MergedOfAnswering
        /\ prom'.scrapeFailedCount = prom.scrapeFailedCount + 1]_vars

\* The families named X a sandbox's endpoint exposes, and their samples
XFamilies(id) == SelectSeq(shim[id].families, LAMBDA f : f.name = NameX)
XSamples(id) == Flatten([i \in 1..Len(XFamilies(id)) |-> XFamilies(id)[i].metric])

\* The samples, each with the label sandbox_id = id after its own labels
Tagged(samples, id) ==
    [j \in 1..Len(samples) |->
       [label |-> samples[j].label \o <<[name |-> "sandbox_id", value |-> id]>>,
        value |-> samples[j].value]]

\* The sandboxes of the pass whose endpoint answered with a family named X
Contributors ==
    {id \in svisited : shim[id].status = "ok" /\ XFamilies(id) # <<>>}

\* C10 (merge correctness): after a federation pass the aggregated snapshot
\* has an entry for X exactly if some sandbox of the pass exposed X; its
\* samples are the concatenation, in some order of the sandboxes, of every
\* contributing sandbox's samples, each carrying sandbox_id = the id of the
\* sandbox it was fetched from; and X is written to the response once.
C10_MergeCorrect ==
    PassDone =>
        /\ NameX \in DOMAIN metricsMap <=> Contributors # {}
        /\ Contributors # {} =>
             \E o \in Orders(Contributors) :
                metricsMap[NameX].metric =
                    Flatten([i \in 1..Len(o) |-> Tagged(XSamples(o[i]), o[i])])
        /\ (Contributors # {} /\ req.encBad = {}) =>
             LET written == {i \in DOMAIN resp.body :
                               /\ resp.body[i].src = "sandbox"
                               /\ resp.body[i].name = NameX}
             IN /\ Cardinality(written) = 1
                /\ \A i \in written : resp.body[i].metric = metricsMap[NameX].metric

\* C10's case: two sandboxes with one sample of X each were merged into one
\* family of two samples.
C10_Witness ==
    /\ PassDone
    /\ Cardinality(Contributors) = 2
    /\ \A id \in Contributors : Len(XSamples(id)) = 1
    /\ Len(metricsMap[NameX].metric) = 2

\* The scenario of C11: registry {s1, s2}, the endpoint of s1 answers the
\* family X with one unlabelled sample of value 1, the endpoint of s2 is
\* unreachable, nothing else fails.
OneAnswersOneUnreachable ==
    /\ DOMAIN Registry.kv = {"s1", "s2"}
    /\ shim["s1"] = Answer(<<FamilyX>>)
    /\ shim["s2"] = Failure("timeout")
    /\ req = NoFaults

\* The samples the response holds under a family name written from src
Written(src, name) ==
    Flatten([i \in 1..Len(resp.body) |->
               IF resp.body[i].src = src /\ resp.body[i].name = name
               THEN resp.body[i].metric ELSE <<>>])

\* All samples the response holds that were written from sandboxes
WrittenFromSandboxes ==
    Flatten([i \in 1..Len(resp.body) |->
               IF resp.body[i].src = "sandbox" THEN resp.body[i].metric ELSE <<>>])

HasLabel(sample, name, value) ==
    \E k \in 1..Len(sample.label) :
        sample.label[k] = [name |-> name, value |-> value]

\* The response's sample X{sandbox_id="s1"} 1 is there, nothing of s2 is.
C11_SandboxPart ==
    /\ Written("sandbox", NameX) =
         <<[label |-> <<[name |-> "sandbox_id", value |-> "s1"]>>, value |-> 1]>>
    /\ \A j \in 1..Len(WrittenFromSandboxes) :
         ~HasLabel(WrittenFromSandboxes[j], "sandbox_id", "s2")

\* C11 (end to end): the response to the first scrape request in the scenario
\* holds X{sandbox_id="s1"} 1 and no sample of s2, and its own families show
\* the failure counter at 1 and the fleet-size gauge at 2.
C11_EndToEnd ==
    (PassDone /\ nscrapes = 1 /\ OneAnswersOneUnreachable) =>
        /\ C11_SandboxPart
        /\ Written("own", OwnName(<<"scrape_failed_count">>)) = <<Sample(1)>>
        /\ Written("own", OwnName(<<"running_shim_count">>)) = <<Sample(2)>>

\* The listener takes the next event off the subscription.
TakesEvent ==
    /\ lpc = "select"
    /\ queue # <<>>
    /\ queue' = Tail(queue)
    /\ lpc' # "returned"

IsOther(topic) == topic \notin {TopicCreate, TopicDelete, ""}

\* C14 (other events): an event that is neither a create nor a delete event
\* is only logged: no step the listener takes for it changes the registry,
\* and the listener is back at its select afterwards.
C14_OtherEvent ==
    [][/\ (TakesEvent /\ IsOther(Head(queue).topic)) =>
            /\ Registry' = Registry
            /\ lpc' \in {"log", "select"}
            /\ lpc' = "log" => lev'.topic = Head(queue).topic
       /\ (IsOther(lev.topic) /\ lpc' # lpc) =>
            /\ Registry' = Registry
            /\ lpc' = "select"
            /\ proc' = "running"]_vars

\* C14's case: the listener has taken an event of another topic about a
\* registered sandbox.
C14_Witness ==
    /\ lpc = "log"
    /\ IsOther(lev.topic)
    /\ lev.id \in DOMAIN Registry.kv

\* The sandboxes of the pass whose endpoint answered
Answering == {id \in svisited : shim[id].status = "ok"}

\* The names of the families the answering sandboxes exposed
SandboxOriginals ==
    UNION {{shim[id].families[i].name : i \in 1..Len(shim[id].families)} :
             id \in Answering}

IsGeneric(name) == HasPrefix(name, GoPrefix) \/ HasPrefix(name, ProcessPrefix)

\* A family the sandboxes exposed under a generic name is in the aggregated
\* snapshot under the runtime prefix followed by that name, with its samples,
\* and not under its own name.
RenamedBeforeMerge ==
    \A id \in Answering : \A i \in 1..Len(shim[id].families) :
        LET f == shim[id].families[i]
        IN IsGeneric(f.name) =>
             /\ f.name \notin DOMAIN metricsMap
             /\ ShimPrefix \o f.name \in DOMAIN metricsMap
             /\ \A j \in 1..Len(f.metric) :
                  \E k \in 1..Len(metricsMap[ShimPrefix \o f.name].metric) :
                     metricsMap[ShimPrefix \o f.name].metric[k] =
                        Tagged(f.metric, id)[j]

\* The agent's own family that Gather named n is not written under a name a
\* family from the sandboxes is written under.
NoCollision(n) ==
    \A i, j \in 1..Len(resp.body) :
        (/\ resp.body[i].src = "own"
         /\ resp.body[i].orig = n
         /\ resp.body[j].src = "sandbox") => resp.body[j].name # resp.body[i].name

\* C15 as stated (relabeling): generic families of the sandboxes are renamed
\* before the merge, and whenever a sandbox exposes a family of the name of
\* one of the agent's own families, the two are written under different names.
C15_NoCollisionAtAll ==
    PassDone => (RenamedBeforeMerge /\ \A n \in SandboxOriginals : NoCollision(n))

\* C15 (relabeling): generic families of the sandboxes are renamed before
\* the merge, and whenever a sandbox exposes a family of the generic name of
\* one of the agent's own families, the two are written under different names.
C15_Relabeling ==
    PassDone =>
        /\ RenamedBeforeMerge
        /\ \A n \in SandboxOriginals : IsGeneric(n) => NoCollision(n)

\* C15's case: the agent's process_ family and a sandbox's process_ family of
\* the same name are both in the response.
C15_Witness ==
    /\ PassDone
    /\ NameProcessCPU \in SandboxOriginals
    /\ Written("own", OwnRename(NameProcessCPU)) # <<>>
    /\ Written("sandbox", ShimPrefix \o NameProcessCPU) # <<>>

\* The agent's own families whose encoding did not fail are in the response
OwnWritten ==
    \A i \in 1..Len(Gather(prom)) :
        OwnRename(Gather(prom)[i].name) \notin req.encBad =>
            Written("own", OwnRename(Gather(prom)[i].name)) # <<>>

\* C16 (status code): a request answers 500 exactly when the agent's own
\* registry cannot be read, then with the error text as its body and without
\* taking the registry or fetching a sandbox; every other request answers 200
\* with the agent's own families, whichever sandboxes fail.
C16_StatusCode ==
    /\ spc # "idle" => (resp.code = 200 /\ ~req.gatherErr)
    /\ (spc = "idle" /\ nscrapes > 0) =>
         /\ resp.code \in {200, 500}
         /\ resp.code = 500 <=> req.gatherErr
         /\ resp.code = 500 =>
              /\ resp.raw # <<>> /\ resp.raw[1] = "error"
              /\ resp.body = <<>>
              /\ svisited = {} /\ slist = <<>> /\ prom.runningShimCount = 0
         /\ resp.code = 200 => OwnWritten

\* C16's case: the registry holds sandboxes and the request answered 500.
C16_Witness ==
    /\ spc = "idle"
    /\ resp.code = 500
    /\ DOMAIN Registry.kv # {}

\* The other case of C16: a request answered 200 although no sandbox answered.
C16_AllFail ==
    /\ PassDone
    /\ DOMAIN Registry.kv = FedIDs
    /\ \A id \in FedIDs : shim[id].status # "ok"
    /\ svisited = FedIDs

\* The merged families whose encoding did not fail are in the response
AggregatedWritten ==
    \A name \in DOMAIN metricsMap :
        name \notin req.encBad => Written("sandbox", name) # <<>>

\* C17 (encode failure): in a finished pass every family of the agent's own
\* registry and every family of the aggregated snapshot whose encoding did
\* not fail is in the response, whichever other families failed to encode.
C17_EncodeContinues == PassDone => (OwnWritten /\ AggregatedWritten)

\* The half of C17 about the agent's own families
C17_OwnContinues == PassDone => OwnWritten

\* An own family failed to encode and the families after it were written
C17_OwnCase ==
    /\ PassDone
    /\ \E i \in 1..Len(Gather(prom)) :
         /\ OwnRename(Gather(prom)[i].name) \in req.encBad
         /\ \E j \in (i + 1)..Len(Gather(prom)) :
              Written("own", OwnRename(Gather(prom)[j].name)) # <<>>

\* The requests that hold a compressor
Holders(x) == {r \in RequestIDs : greq[r].gz = x}

\* C18 (compressor pool): a request that took a compressor from the pool has,
\* when the handler returns, closed it and then put it back exactly once, on
\* every exit path; a request that took none touches the pool not at all; and
\* no compressor is held by two requests or held while it is in the pool.
C18_ScopedCompressor ==
    /\ \A x \in Compressors :
         /\ Cardinality(Holders(x)) <= 1
         /\ x \in pool => (Holders(x) = {} /\ gzstate[x] = "closed")
    /\ \A r \in RequestIDs :
         /\ greq[r].pc \in {"gather", "encode"} /\ greq[r].gzip =>
               (greq[r].gz # 0 /\ gzstate[greq[r].gz] = "open")
         /\ greq[r].pc = "done" =>
               /\ greq[r].gz = 0
               /\ greq[r].log = IF greq[r].gzip
                                THEN <<"Get", "Reset", "Close", "Put">>
                                ELSE <<>>

\* C18's case: one request has left by the 500 path and put its compressor
\* back, and the other request, still running, holds that compressor now.
C18_Witness ==
    \E r1, r2 \in RequestIDs :
        /\ greq[r1].pc = "done" /\ greq[r1].gzip /\ greq[r1].path = "gatherErr"
        /\ greq[r2].pc = "encode"
        /\ greq[r2].gz # 0
        /\ greq[r2].gz = greq[r1].used

\* Two requests hold compressors at once, one of them unwinding a panic
C18_TwoHolders ==
    \E r1, r2 \in RequestIDs :
        /\ r1 # r2
        /\ greq[r1].gz # 0 /\ greq[r2].gz # 0
        /\ greq[r1].pc = "defers" /\ greq[r1].path = "panic"
        /\ greq[r1].log = <<"Get", "Reset", "Close">>

\* C19 (no lock across I/O): whoever holds the registry lock is inside the
\* registry operation it took the lock for; the listener waiting for an event
\* or fetching a descriptor, the task listing namespaces and containers, and
\* the handler fetching a sandbox's metrics do not hold it.
C19_NoLockAcrossIO ==
    /\ lock \in {"none", "listener", "main", "updater", "handler"}
    /\ lock = "listener" => lpc \in {"putBody", "delBody"}
    /\ lock \in {"main", "updater"} => rpc = "setBody"
    /\ lock = "handler" => spc = "getAllBody"
    /\ lpc \in {"start", "select", "getContainer"} => lock # "listener"
    /\ rpc \in {"getSandboxes", "list"} => lock \notin {"main", "updater"}
    /\ spc = "range" => lock # "handler"

\* C19's case: the handler is fetching the sandboxes' metrics while the
\* listener, inside a registry operation, holds the lock.
C19_Witness ==
    /\ proc = "running"
    /\ spc = "range"
    /\ svisited # {}
    /\ lock = "listener"

\* C20 (no stall): a scrape request that has begun eventually returns, its
\* response written, whatever the snapshot is and whichever sandboxes never
\* answer.
C20_ScrapeCompletes == (spc # "idle") ~> (spc = "idle")

\* A request that has begun returns unless the process ends meanwhile
C20_CompletesUnlessCrashed == (spc # "idle") ~> (spc = "idle" \/ proc = "crashed")

\* With nobody writing the registry: every sandbox of the snapshot has been
\* asked by the time the request returns
C20_AllAsked == spc = "idle" /\ resp.code = 200 => svisited = DOMAIN sstart

\* No subscription is active: the listener returned, or never connected
Unsubscribed == lpc \in {"returned", "unconnected"}

\* C21 (subscription error): the step by which the listener stops on a
\* subscription error leaves the registry as it was, and a scrape request that
\* takes its snapshot while no subscription is active gets the registry's
\* entries as they are.
C21_ErrorKeepsRegistry ==
    [][/\ (lpc = "select" /\ lpc' = "returned") =>
             (sandboxes' = sandboxes /\ Registry' = Registry /\ proc' = proc)
       /\ (Unsubscribed /\ spc = "getAllBody" /\ spc' = "range") =>
             (sstart' = Registry.kv /\ Registry' = Registry /\ proc' = "running")]_vars

\* C21's case: the listener has stopped on a subscription error, the registry
\* holds a sandbox, and a request issued after that has finished its pass.
C21_Witness ==
    /\ lpc = "returned"
    /\ DOMAIN Registry.kv # {}
    /\ spc = "idle" /\ resp.code = 200
    /\ nscrapes = 1
    /\ svisited = DOMAIN Registry.kv

\* C22 (order of the response): in a finished pass the agent's own families
\* are in the response and every one of them comes before every family
\* written from the aggregated snapshot.
C22_OwnFirst ==
    PassDone =>
        /\ OwnWritten
        /\ \A i, j \in 1..Len(resp.body) :
             (resp.body[i].src = "own" /\ resp.body[j].src = "sandbox") => i < j

\* C22's case: a response with the agent's own families and two families of
\* the aggregated snapshot.
C22_Witness ==
    /\ PassDone
    /\ \E i \in 1..Len(resp.body) : resp.body[i].src = "own"
    /\ Cardinality({i \in 1..Len(resp.body) : resp.body[i].src = "sandbox"}) = 2

\* C23 (fleet-size gauge): during a pass and after it, the gauge is the number
\* of sandboxes of the snapshot the pass took, whether or not they answered.
C23_FleetGauge ==
    (spc = "range" \/ PassDone) =>
        prom.runningShimCount = Cardinality(DOMAIN sstart)

\* The step that takes the snapshot sets the gauge to its size
C23_SetAtSnapshot ==
    [][(spc = "getAllBody" /\ spc' = "range") =>
          prom'.runningShimCount = Cardinality(DOMAIN Registry.kv)]_vars

\* C23's case: a finished pass over three sandboxes of which one did not
\* answer and one answered what does not decode.
C23_Witness ==
    /\ PassDone
    /\ DOMAIN sstart = FedIDs
    /\ svisited = FedIDs
    /\ \E a, b \in FedIDs : shim[a].status = "timeout" /\ shim[b].status = "baddata"
    /\ prom.runningShimCount = 3

\* C24 (scrape count and duration): the scrape counter equals the number of
\* requests that entered the handler, and the number of duration observations
\* equals the number of requests that returned from it, by whichever exit.
C24_CountedOnce ==
    /\ prom.scrapeCount = nscrapes
    /\ prom.observations = IF spc = "idle" THEN nscrapes ELSE nscrapes - 1

\* C24's case: two requests have returned by the 500 exit.
C24_Witness ==
    /\ spc = "idle"
    /\ nscrapes = 2
    /\ resp.code = 500
    /\ prom.scrapeCount = 2 /\ prom.observations = 2

\* Two requests have returned from passes in which a sandbox failed
C24_SomeFail ==
    /\ PassDone
    /\ nscrapes = 2
    /\ \E id \in svisited : shim[id].status # "ok"
    /\ \E id \in svisited : shim[id].status = "ok"
    /\ prom.observations = 2

\* C25 (cancellation): once the agent is cancelled, the listener eventually
\* is out of its receive loop, its subscription and connection released.
C25_CancelStopsListener ==
    cancelled ~> (lpc \in {"off", "returned", "unconnected"})

\* After the cancellation the listener leaves its loop only by a subscription
\* error: a step that ends the loop is the step of the error case.
C25_OnlyErrorEnds ==
    [][(cancelled /\ lpc # "returned" /\ lpc' = "returned") =>
          (lpc = "select" /\ subErr)]_vars

\* The arguments with which NewMAgent has to refuse
Fatal == conf.addr = "" \/ conf.load = "error"

\* C26 (fatal startup errors): with an empty address or a configuration that
\* does not load (other than for not existing) NewMAgent returns no agent
\* before it lists anything; a listing that fails makes it return no agent;
\* an agent that was refused has no listener, and the listener is started
\* only by a construction that met none of the three.
C26_RefusesToStart ==
    [][/\ (rpc = "new" /\ rpc' # "new") =>
             IF Fatal THEN proc' = "refused" /\ rpc' = "done"
                      ELSE proc' = "starting" /\ rpc' = "getSandboxes"
       /\ (proc = "starting" /\ rpc \in {"getSandboxes", "list"} /\ rpc' = "done") =>
             proc' = "refused"
       /\ proc' = "refused" => (lpc' = "off" /\ Registry'.kv = EmptyMap)
       /\ (lpc = "off" /\ lpc' # "off") =>
             (~Fatal /\ rpc = "setDone" /\ rmap # NilRef /\ proc' = "running")]_vars

\* C26's case: the address is given, the configuration file exists and does
\* not load; the agent is refused.
C26_Witness ==
    /\ conf.addr # "" /\ conf.load = "error"
    /\ ext # [id \in IDs |-> Absent]
    /\ proc = "refused"

\* The initial listing failed; the agent is refused
C26_ListingFailed ==
    /\ ~Fatal
    /\ proc = "refused"

\* The configuration file does not exist; the agent runs
C26_NotExistRuns ==
    /\ conf.load = "notExist"
    /\ proc = "running" /\ Subscribed

\* Every entry of the registry has a sandbox id and a namespace
EntriesComplete ==
    \A id \in DOMAIN Registry.kv :
        id \in IDs /\ id # "" /\ Registry.kv[id] \in Namespaces /\ Registry.kv[id] # ""

\* C27 (entries are complete): the registry's backing map is a map (not nil)
\* and every entry has a non-empty sandbox id and a non-empty namespace.
C27_CompleteEntries == sandboxes # NilRef /\ EntriesComplete

\* The half of C27 about the entries
C27_EntriesOnly == EntriesComplete

\* The ids whose namespace this step changes while they stay in the registry
Renamespaced ==
    {id \in DOMAIN Registry.kv \cap DOMAIN Registry'.kv :
        Registry'.kv[id] # Registry.kv[id]}

\* C28 as stated (namespace never mutated in place): no step, the replace of
\* the whole map included, changes the namespace of an id that is in the
\* registry before and after the step.
C28_NoStepRenamespaces == [][Renamespaced = {}]_vars

\* C28 (namespace never mutated in place): putIfNotExists and deleteIfExists
\* never change the namespace of an id that stays in the registry; the only
\* step that does is the replace of the whole map, which gives the id the
\* namespace the listing found it in.
C28_OnlyReplaceRenamespaces ==
    [][Renamespaced # {} =>
          /\ rpc = "setBody" /\ rpc' = "setDone"
          /\ Registry'.kv = Deref(mem, rmap).kv]_vars

\* C28's case: the listener's putIfNotExists for an id the registry holds
\* under another namespace has returned false; the entry is as it was.
C28_Witness ==
    /\ last.by = "listener" /\ last.op = "put"
    /\ ~last.ok /\ ~last.diff
    /\ last.id \in DOMAIN Registry.kv
    /\ Registry.kv[last.id] # last.val

\* A running sandbox container of the expected runtime
KataSandbox(c) == c.present /\ c.runtime = kataRuntimeName /\ c.type = "sandbox"

\* C29 (only sandboxes of the expected runtime): whenever the listener decides
\* to register the id of a create event, and whenever a listing adds an id to
\* its map, the container of that id in that namespace is a sandbox container
\* of the expected runtime.
C29_OnlyKataSandboxes ==
    [][/\ (lpc = "getContainer" /\ lpc' = "putLock") =>
             (KataSandbox(ext[lev.id]) /\ ext[lev.id].namespace = lev.namespace)
       /\ (rpc = "list" /\ rmap # NilRef /\ rmap' = rmap) =>
             \A id \in DOMAIN mem'[rmap] \ DOMAIN mem[rmap] :
                 KataSandbox(ext[id]) /\ ext[id].namespace = mem'[rmap][id]]_vars

\* The half of C29 about the listing
C29_ListingClassifies ==
    [][(rpc = "list" /\ rmap # NilRef /\ rmap' = rmap) =>
          \A id \in DOMAIN mem'[rmap] \ DOMAIN mem[rmap] :
              KataSandbox(ext[id]) /\ ext[id].namespace = mem'[rmap][id]]_vars

\* The listener has registered an id whose container is a sandbox of another
\* runtime
C29_OtherRuntimeRegistered ==
    /\ last.by = "listener" /\ last.op = "put" /\ last.ok
    /\ ext[last.id].present
    /\ ext[last.id].runtime = otherRuntimeName
    /\ last.id \in DOMAIN Registry.kv

\* C30 (validateProxyParams): the call returns nil exactly when id, agentURL
\* and consoleURL are non-empty and the logger is set; otherwise an error.
C30_ValidateProxyParams ==
    perr # "unset" =>
        /\ perr = "nil" <=>
              (/\ pparams.id # "" /\ pparams.agentURL # ""
               /\ pparams.consoleURL # "" /\ pparams.logger # "nil")
        /\ perr # "nil" =>
              perr \in {"Invalid proxy parameters",
                        "Invalid proxy parameter: proxy logger is not set"}

\* C30's case: the three strings are set, the logger is not, and the call
\* has returned an error.
C30_Witness ==
    /\ pparams.id # "" /\ pparams.agentURL # "" /\ pparams.consoleURL # ""
    /\ pparams.logger = "nil"
    /\ perr \notin {"unset", "nil"}

\* All four are set and the call has returned nil
C30_Valid ==
    /\ pparams.id # "" /\ pparams.agentURL # "" /\ pparams.consoleURL # ""
    /\ pparams.logger = "set"
    /\ perr = "nil"

\* How often x occurs in a sequence
Count(seq, x) == Cardinality({i \in DOMAIN seq : seq[i] = x})

\* Two snapshots with the same family names and, name by name, the same
\* samples with the same multiplicities
SameResult(m1, m2) ==
    /\ DOMAIN m1 = DOMAIN m2
    /\ \A n \in DOMAIN m1 :
         \A x \in {m1[n].metric[i] : i \in DOMAIN m1[n].metric}
               \cup {m2[n].metric[i] : i \in DOMAIN m2[n].metric} :
            Count(m1[n].metric, x) = Count(m2[n].metric, x)

\* What the pass merges when it processes the sandboxes in the order o
MergedInOrder(o) ==
    Merge([i \in 1..Len(o) |-> getSandboxMetrics(o[i], shim[o[i]]).list])

\* The places <<sandbox, family, sample>> in the answers of the sandboxes of
\* the pass that answered
Places ==
    UNION {UNION {{<<id, i, j>> : j \in DOMAIN shim[id].families[i].metric} :
                    i \in DOMAIN shim[id].families} :
             id \in Answering}

RelabeledAt(p) == Relabel(shim[p[1]].families[p[2]], p[1])

\* C31 (order independence): the aggregated snapshot of a finished pass has,
\* whatever the order in which the sandboxes were processed, the same family
\* names and for every name the same multiset of samples as the merge in any
\* other order; and that multiset holds exactly the relabeled samples of the
\* sandboxes that answered, so a failing sandbox takes away its own samples
\* and nothing else.
C31_OrderIndependent ==
    PassDone =>
        /\ \A o \in Orders(svisited) : SameResult(metricsMap, MergedInOrder(o))
        /\ DOMAIN metricsMap = {RelabeledAt(p).name : p \in Places}
        /\ \A n \in DOMAIN metricsMap :
             \A x \in {RelabeledAt(p).metric[p[3]] : p \in Places}
                   \cup {metricsMap[n].metric[i] : i \in DOMAIN metricsMap[n].metric} :
                Count(metricsMap[n].metric, x) =
                    Cardinality({p \in Places : /\ RelabeledAt(p).name = n
                                                /\ RelabeledAt(p).metric[p[3]] = x})

\* C31's case: three sandboxes, one failing and two answering with the same
\* family name but different samples, were processed with s2 before s1.
C31_Witness ==
    /\ PassDone
    /\ svisited = {"s1", "s2", "s3"}
    /\ Cardinality(Answering) = 2
    /\ {"s1", "s2"} \subseteq Contributors
    /\ XSamples("s1") # XSamples("s2")
    /\ Len(slist) = 2
    /\ slist[1] = getSandboxMetrics("s2", shim["s2"]).list
    /\ slist[2] = getSandboxMetrics("s1", shim["s1"]).list

\* The sandboxes of the pass whose fetch failed
Failing == {id \in svisited : shim[id].status # "ok"}

\* No sample of the aggregated snapshot carries the id of a sandbox whose
\* fetch failed, and every sandbox that answered has all its samples there.
NothingOfFailing ==
    /\ \A n \in DOMAIN metricsMap : \A i \in DOMAIN metricsMap[n].metric :
         \A id \in Failing : ~HasLabel(metricsMap[n].metric[i], "sandbox_id", id)
    /\ \A p \in Places :
         \E i \in DOMAIN metricsMap[RelabeledAt(p).name].metric :
            metricsMap[RelabeledAt(p).name].metric[i] = RelabeledAt(p).metric[p[3]]

\* C32 (all or nothing): after the first pass, if the fetch of a sandbox
\* failed, nothing of that sandbox is in the aggregated snapshot, the other
\* sandboxes' samples are, and the failure counter is at least one.
C32_AllOrNothing ==
    (PassDone /\ nscrapes = 1 /\ Failing # {}) =>
        /\ NothingOfFailing
        /\ prom.scrapeFailedCount >= 1

\* The part of C32 about the snapshot alone
C32_ContributionDropped ==
    (PassDone /\ Failing # {}) => NothingOfFailing

\* A pass in which one sandbox's response stopped decoding after a family
\* had been decoded, and another sandbox answered
C32_DecodeFailedCase ==
    /\ PassDone
    /\ \E id \in Failing : shim[id].status = "baddata" /\ shim[id].families # <<>>
    /\ Answering # {}
    /\ metricsMap # EmptyMetricsMap

\* The positions of the labels named sandbox_id in a sample
SandboxIDLabels(sample) ==
    {k \in 1..Len(sample.label) : sample.label[k].name = "sandbox_id"}

UniqueLabelNames(sample) ==
    \A k, l \in 1..Len(sample.label) :
        sample.label[k].name = sample.label[l].name => k = l

\* C33 (relabeling): every sample of the aggregated snapshot of a finished
\* pass has pairwise different label names and exactly one label named
\* sandbox_id, whose value is the id of the sandbox the sample was fetched
\* from, whatever labels the sandbox's response carried.
C33_OneSandboxIDLabel ==
    PassDone =>
        \A n \in DOMAIN metricsMap : \A i \in DOMAIN metricsMap[n].metric :
            LET s == metricsMap[n].metric[i]
            IN /\ UniqueLabelNames(s)
               /\ Cardinality(SandboxIDLabels(s)) = 1
               /\ \E p \in Places :
                    /\ RelabeledAt(p).name = n
                    /\ RelabeledAt(p).metric[p[3]] = s
                    /\ HasLabel(s, "sandbox_id", p[1])

\* What the relabeling does establish: the last label of every sample is
\* sandbox_id = the id of a sandbox of the pass that answered with it, and a
\* sample whose response carried no label of that name has exactly one.
C33_LastLabel ==
    PassDone =>
        \A n \in DOMAIN metricsMap : \A i \in DOMAIN metricsMap[n].metric :
            LET s == metricsMap[n].metric[i]
            IN \E p \in Places :
                 LET orig == shim[p[1]].families[p[2]].metric[p[3]]
                 IN /\ RelabeledAt(p).name = n
                    /\ RelabeledAt(p).metric[p[3]] = s
                    /\ s.label[Len(s.label)] = [name |-> "sandbox_id", value |-> p[1]]
                    /\ SandboxIDLabels(orig) = {} => Cardinality(SandboxIDLabels(s)) = 1

\* A finished pass with a sandbox whose response carried a sandbox_id label
C33_LabeledCase ==
    /\ PassDone
    /\ \E id \in Answering : shim[id] = Answer(<<FamilyLabeled>>)

\* A pass of the updater has called set and is in its sleep
PassOver == rpc = "setDone"

C34_GoesOnUnlessCrashed == PassOver ~> (rpc = "getSandboxes" \/ proc = "crashed")

\* The step of a pass that replaces the registry by a listing that succeeded
ReplaceAll == rpc = "setBody" /\ rpc' = "setDone" /\ rmap # NilRef

C35_FreshListingKeeps ==
    [][ReplaceAll =>
         \A id \in DOMAIN Registry.kv \cap DOMAIN ExtSandboxes :
            id \in DOMAIN Deref(mem, rmap).kv => id \in DOMAIN Registry'.kv]_vars

C36_OnlyListedComeBack ==
    [][ReplaceAll =>
         \A id \in DOMAIN Registry'.kv \ DOMAIN Registry.kv :
            id \in DOMAIN Deref(mem, rmap).kv]_vars

\* C37 (startup ordering): the listener is started only by the step that
\* ends a startup whose listing of every namespace succeeded and whose map
\* is the registry; while the agent is starting the listener is off and the
\* registry changes only by the initial replacement; and that replacement
\* finds the empty map NewMAgent made, with no operation of the listener
\* before it.
C37_StartupOrdering ==
    [][/\ (lpc = "off" /\ lpc' # "off") =>
            /\ proc = "starting" /\ proc' = "running"
            /\ rpc = "setDone"
            /\ rmap # NilRef /\ rns = <<>>
            /\ sandboxes = rmap
       /\ proc = "starting" =>
            /\ lpc = "off"
            /\ Registry' # Registry => (rpc = "setBody" /\ last'.by = "main")
       /\ (proc = "starting" /\ rpc = "setBody") =>
            /\ Registry.kv = EmptyMap
            /\ last = NoOp
            /\ rpc' = "setDone" => Registry'.kv = Deref(mem, rmap).kv]_vars

\* C37's case: after a startup that listed sandboxes, the listener has
\* applied the delete event of one of them.
C37_Witness ==
    /\ proc = "running"
    /\ last.by = "listener" /\ last.op = "delete" /\ last.ok
    /\ Registry.kv # EmptyMap

\* C38 (gzip responses): a response that carries Content-Encoding: gzip has
\* nothing written to the connection past the compressor; the text of the
\* 500 answer is not in it uncompressed.
C38_AllThroughCompressor ==
    resp.gzip => \A i \in DOMAIN resp.raw : resp.raw[i] # "error"

\* The 200 answers do go through the compressor: nothing is written to the
\* connection directly.
C38_OkThroughCompressor ==
    (resp.gzip /\ resp.code = 200) => resp.raw = <<>>

\* A gzip-marked response of a finished pass with families in its body
C38_OkCase ==
    /\ PassDone
    /\ resp.gzip
    /\ resp.body # <<>>

\* What C39 says of one step of the shim's endpoint, but for the shim's own
\* families: the variable never goes back to true; it is cleared only by a
\* call that failed with Unimplemented, and by every such call; a call that
\* failed with another code or succeeded leaves it; and a request that came
\* in when it was false does not call the agent.
LatchStep ==
    /\ ~isSupportAgentMetricsAPI => ~isSupportAgentMetricsAPI'
    /\ \A r \in ShimRequests :
         (sreq[r].pc = "call" /\ sreq'[r].pc = "done") =>
            /\ sreq'[r].code = "Unimplemented" => ~isSupportAgentMetricsAPI'
            /\ sreq'[r].code # "Unimplemented" =>
                 isSupportAgentMetricsAPI' = isSupportAgentMetricsAPI
    /\ (isSupportAgentMetricsAPI /\ ~isSupportAgentMetricsAPI') =>
         \E r \in ShimRequests :
            /\ sreq[r].pc = "call"
            /\ sreq'[r].code = "Unimplemented"
    /\ \A r \in ShimRequests :
         sreq'[r].latched => (sreq'[r].pc # "call" /\ sreq'[r].code = "none")

\* C39 (agent-metrics latch): the support flag is a one-way latch set by a
\* call that failed with Unimplemented and by nothing else, no request that
\* comes in after it is set calls the agent, and every request that has
\* returned has written the shim's own families.
C39_LatchAndOwnFamilies ==
    [][/\ LatchStep
       /\ \A r \in ShimRequests : sreq'[r].pc = "done" => sreq'[r].own]_vars

\* C39 as the code has it: the latch as above, and every request that has
\* returned has written the shim's own families if gathering them succeeded,
\* whatever the flag and the agent's answer; if gathering failed the request
\* has written nothing and has not called the agent.
C39_LatchAndGathered ==
    [][/\ LatchStep
       /\ \A r \in ShimRequests :
            sreq'[r].pc = "done" =>
               /\ sreq'[r].gather = "ok" => sreq'[r].own
               /\ sreq'[r].gather = "err" =>
                    (~sreq'[r].own /\ ~sreq'[r].agent /\ sreq'[r].code = "none")]_vars

\* C39's case: a call failed with Unimplemented, and a request that came in
\* afterwards has returned with the shim's own families and without calling
\* the agent.
C39_Witness ==
    /\ ~isSupportAgentMetricsAPI
    /\ sreq["m1"].pc = "done" /\ sreq["m1"].code = "Unimplemented"
    /\ sreq["m2"].pc = "done" /\ sreq["m2"].latched
    /\ sreq["m2"].own /\ sreq["m2"].code = "none"

\* A call failed with another code and the flag is still set
C39_OtherCode ==
    /\ isSupportAgentMetricsAPI
    /\ \E r \in ShimRequests : sreq[r].pc = "done" /\ sreq[r].code = "Unavailable"

\* A request that passed the test of the flag before it was cleared is about
\* to call the agent after it was cleared
C39_InFlight ==
    /\ ~isSupportAgentMetricsAPI
    /\ \E r \in ShimRequests : sreq[r].pc = "call" /\ ~sreq[r].latched

\* The parameters validateParams refuses
InvalidParams(params) ==
    \/ params.id = "" \/ params.agentURL = "" \/ params.consoleURL = <<>>
    \/ params.logger = "nil"

\* What C40 says of a call of start: refused with the state untouched if the
\* parameters are invalid or the console is watched; an error, no sandbox id
\* and no watched console if the console cannot be dialed; otherwise the
\* given hid and agentURL, the sandbox id set, and the console watched
\* exactly if the call dialed it.
StartStep ==
    LET params == bcall'.params
    IN /\ (InvalidParams(params) \/ pconn # "nil") =>
            /\ bcall'.err # "nil" /\ bcall'.pid = -1 /\ bcall'.url = ""
            /\ psandboxID' = psandboxID /\ pconn' = pconn
       /\ (~InvalidParams(params) /\ pconn = "nil") =>
            /\ bcall'.err \in {"nil", "dial"}
            /\ bcall'.err = "dial" =>
                 /\ WatchesConsole(params)
                 /\ bcall'.pid = -1 /\ bcall'.url = ""
                 /\ psandboxID' = "" /\ pconn' = "nil"
            /\ bcall'.err = "nil" =>
                 /\ bcall'.pid = params.hid /\ bcall'.url = params.agentURL
                 /\ psandboxID' = params.id
                 /\ pconn' = IF WatchesConsole(params) THEN "open" ELSE "nil"
            /\ ~WatchesConsole(params) => bcall'.err = "nil"

\* C40 (built-in proxy): every call of start does what StartStep says, and
\* after every call of stop the console is not watched and the sandbox id is
\* empty.
C40_StartStop ==
    [][bcall'.n # bcall.n =>
         /\ bcall'.op = "start" => StartStep
         /\ bcall'.op = "stop" =>
              /\ bcall'.err = "nil"
              /\ pconn' = "nil"
              /\ psandboxID' = ""]_vars

\* C40 as the code has it: every call of start does what StartStep says;
\* after every call of stop the console is not watched, and the sandbox id
\* is empty if the console was watched and otherwise what it was.
C40_StartStopAsCoded ==
    [][bcall'.n # bcall.n =>
         /\ bcall'.op = "start" => StartStep
         /\ bcall'.op = "stop" =>
              /\ bcall'.err = "nil"
              /\ pconn' = "nil"
              /\ psandboxID' = IF pconn # "nil" THEN "" ELSE psandboxID]_vars

\* C40's case: a start that did not watch the console, then a stop: the
\* sandbox id is still set.
C40_Witness ==
    /\ bcall.n = 2 /\ bcall.op = "stop"
    /\ pconn = "nil"
    /\ psandboxID # ""

\* A start has succeeded with the console watched after two earlier calls
C40_StartedAgain ==
    /\ bcall.n = 3 /\ bcall.op = "start" /\ bcall.err = "nil"
    /\ pconn = "open"
    /\ psandboxID = bcall.params.id

\* A start failed to dial the console
C40_DialFailed ==
    /\ bcall.op = "start" /\ bcall.err = "dial"
    /\ pconn = "nil" /\ psandboxID = ""

=============================================================================
